---- MODULE Spec2Model ----
(***************************************************************************)
(* FreeFileSync, Source/base/status_handler_impl.h: the actor through      *)
(* which parallel worker threads report statistics, log messages and       *)
(* errors to the main thread (AsyncCallback), the per-item statistics      *)
(* reconciliation (ItemStatReporter) and the per-device executor           *)
(* (massParallelExecute).                                                  *)
(*                                                                         *)
(* Threads: "main" and one worker thread per device; a worker thread is    *)
(* named by the device it serves.  An optional value is a sequence of      *)
(* length 0 (std::nullopt) or 1.  A critical section of a worker on        *)
(* lockRequest_ that neither blocks nor calls out is one step, guarded by  *)
(* the mutex being free; the main thread keeps the mutex over several      *)
(* steps, since it calls the external callback while holding it.           *)
(***************************************************************************)
EXTENDS Integers, Sequences, FiniteSets, TLC

\* ---- bounds of the model ----
MaxItems == 2     \* work items in a workload
MaxOps == 2       \* AsyncCallback calls made by all work items of a run
MaxExpected == 2  \* ItemStatReporter: itemsExpected, bytesExpected in 0..MaxExpected
MaxCalls == 3     \* ItemStatReporter: reportDelta calls per item
MaxRetries == 3   \* tryReportingError: failures of cmd that are followed up
MaxBytesExpected == 3  \* PercentStatReporter: bytesExpected in 0..MaxBytesExpected
MaxBuckets == 3   \* getCurrentStatus: buckets of the registry it is applied to
MaxChannelCalls == 2   \* calls of logInfo and reportError by one worker, where only these are made

\* the numbers of entries a bucket of the registry has when getCurrentStatus is checked on
\* its own
BucketSizes == 0..2

\* status messages that are not empty
StatusTexts == {"a", "b"}

\* the devices a workload may name, in the order of std::map<AfsDevice, ...>
Devices == {1, 2}

VARIABLES
    \* ---- input of massParallelExecute ----
    workload,              \* sequence of devices, one per work item
    \* ---- AsyncCallback: main <-> worker communication channel ----
    lockRequest_,          \* "free" or "main"
    errorRequest_,         \* optional ErrorInfo
    errorResponse_,        \* optional Response
    logInfoRequest_,       \* optional message
    finishNowRequest_,
    \* ---- AsyncCallback: status updates ----
    statusByPriority_,     \* sequence (by priority) of sequences of ThreadStatus
    \* ---- AsyncCallback: lock-free statistics ----
    itemsDeltaProcessed_, bytesDeltaProcessed_, itemsDeltaTotal_, bytesDeltaTotal_,
    \* ---- massParallelExecute and its thread groups ----
    activeDeviceCount,
    tasksSubmitted, tasksTaken, tasksPending, hookRegistered,
    stopRequested,         \* per worker thread: stop requested by the thread group
    destroyed,             \* thread groups already destructed
    \* ---- the main thread ----
    mpc, mDev, mret, failed,
    deltaProcessed, deltaTotal,      \* locals of reportStats
    \* ---- the worker threads ----
    wpc, warg, woken,
    opsUsed, msgCalls,
    \* ---- the external PhaseCallback, as the main thread has driven it ----
    cbProcessed, cbTotal, cbLog, cbErr,
    \* ---- history ----
    posted,                \* per counter: sum of the deltas added by workers
    dirty,                 \* items added to "processed" by the worker whose message is in the slot
    logPosted,             \* messages in the order they were stored in the slot
    errReturned,           \* <<info, response>> of every reportError call that returned
    allDoneCalls, taskBegins, taskEnds, assertFailed,
    \* ---- ItemStatReporter (one item, one thread) and what it passed to its Callback ----
    itemsReported_, bytesReported_, itemsExpected_, bytesExpected_,
    exeptionCount_,        \* ItemStatReporter: std::uncaught_exceptions() at construction
    rpc, rcalls, rSum, rProcessed, rTotal,
    \* ---- the clock of waitUntilDone, where it is observed ----
    callbackTime,          \* "unobserved", or "ahead" / "reached": steady_clock against callbackTime
    drains,                \* passes of lines 106-123 begun after callbackTime was reached
    \* ---- tryReportingError: one call ----
    tpc,                   \* "idle", "cmd", "reportError", "returned", "thrown"
    retryNumber,
    cmdCalls,              \* invocations of cmd
    reportedErrors,        \* <<message, retryNumber>> of every cb.reportError call, in order
    retryResponses,        \* responses "retry" received
    tresult,               \* the string returned
    \* ---- PercentStatReporter: one item ----
    now,                   \* steady_clock, in periods of UI_UPDATE_INTERVAL / 2
    lastUpdate_, startTime_, showPercent_,
    speedTest_,            \* the samples <<time, bytes>> held by the SpeedTest
    percentShown,          \* <<bytes, bytesTotal>>: the fraction last passed to formatPercent
    lastCheck,             \* outcome of the last test of line 389: "none", "unknown", "atOrBelow", "above"
    belowMinDuration,      \* a test of line 389 has found the estimate at or below the minimum
    \* ---- the mutex of the registry, where it is observed ----
    lockCurrentStatus_,    \* <<"unobserved">>, <<"free">>, or its holder: <<"main">>, <<"worker", w>>
    \* ---- getCurrentStatus: one call ----
    spc,                   \* "idle", "call", "returned"
    currentStatus          \* the value returned

chanVars == <<lockRequest_, errorRequest_, errorResponse_, logInfoRequest_, finishNowRequest_>>
statVars == <<itemsDeltaProcessed_, bytesDeltaProcessed_, itemsDeltaTotal_, bytesDeltaTotal_>>
poolVars == <<activeDeviceCount, tasksSubmitted, tasksTaken, tasksPending, hookRegistered,
              stopRequested, destroyed>>
mainVars == <<mpc, mDev, mret, failed, deltaProcessed, deltaTotal>>
workVars == <<wpc, warg, woken, opsUsed, msgCalls>>
cbVars == <<cbProcessed, cbTotal, cbLog, cbErr>>
histVars == <<posted, dirty, logPosted, errReturned, allDoneCalls, taskBegins, taskEnds, assertFailed>>
itemVars == <<itemsReported_, bytesReported_, itemsExpected_, bytesExpected_,
              exeptionCount_, rpc, rcalls, rSum, rProcessed, rTotal>>
uiVars == <<callbackTime, drains>>
retryVars == <<tpc, retryNumber, cmdCalls, reportedErrors, retryResponses, tresult>>
\* the state of the functions that are checked on their own
percentVars == <<now, lastUpdate_, startTime_, showPercent_, speedTest_, percentShown,
                 lastCheck, belowMinDuration>>
statusCallVars == <<spc, currentStatus>>
sideVars == <<retryVars, percentVars, statusCallVars>>
vars == <<workload, chanVars, statusByPriority_, statVars, poolVars, mainVars, workVars,
          cbVars, histVars, itemVars, sideVars, lockCurrentStatus_, uiVars>>


\* ---------------------------------------------------------------------
\* Helpers
\* ---------------------------------------------------------------------
None == <<>>
Some(v) == <<v>>
Has(opt) == opt # <<>>
Val(opt) == opt[1]

Counters == {"itemsProcessed", "bytesProcessed", "itemsTotal", "bytesTotal"}

\* value of one of the four std::atomic counters
Load(c) ==
    CASE c = "itemsProcessed" -> itemsDeltaProcessed_
      [] c = "bytesProcessed" -> bytesDeltaProcessed_
      [] c = "itemsTotal"     -> itemsDeltaTotal_
      [] c = "bytesTotal"     -> bytesDeltaTotal_

\* one atomic operator+= on a counter
AtomicAdd(c, n) ==
    /\ itemsDeltaProcessed_' = itemsDeltaProcessed_ + (IF c = "itemsProcessed" THEN n ELSE 0)
    /\ bytesDeltaProcessed_' = bytesDeltaProcessed_ + (IF c = "bytesProcessed" THEN n ELSE 0)
    /\ itemsDeltaTotal_'     = itemsDeltaTotal_     + (IF c = "itemsTotal"     THEN n ELSE 0)
    /\ bytesDeltaTotal_'     = bytesDeltaTotal_     + (IF c = "bytesTotal"     THEN n ELSE 0)

ItemsOf(kind) == IF kind = "processed" THEN "itemsProcessed" ELSE "itemsTotal"
BytesOf(kind) == IF kind = "processed" THEN "bytesProcessed" ELSE "bytesTotal"

\* the deltas a work item passes to updateDataProcessed / updateDataTotal: <<kind, items, bytes>>
WorkDeltas == {<<"processed", 1, 1>>, <<"total", 1, -1>>}

Responses == {"ignore", "retry"}

\* The workloads: lines 476-478 group the items by device and keep their order within a
\* device, and the model's work items are alike, so the items are listed device by device.
Workloads ==
    {wl \in UNION {[1..n -> Devices] : n \in 0..MaxItems} :
        \A i \in DOMAIN wl : \A j \in DOMAIN wl : i <= j => wl[i] <= wl[j]}

\* std::map<AfsDevice, ...> perDeviceWorkload: the number of work items per device
perDeviceWorkload(d) == Cardinality({i \in DOMAIN workload : workload[i] = d})
DeviceKeys == {d \in Devices : perDeviceWorkload(d) > 0}
\* every thread group registers with priority 0
statusPrioZero(d) == 0

\* statusPrio = deviceThreadGroups.size() when the device's thread group is created
statusPrio(d) == Cardinality({e \in DeviceKeys : e < d})
NextKeys(d) == {e \in DeviceKeys : e > d}
MinOf(S) == CHOOSE x \in S : \A y \in S : x <= y

\* threads waiting on a condition variable of the request channel
OnReadyForNewRequest(w) == wpc[w] \in {"log_blocked", "err_blocked1"}
OnHaveResponse(w) == wpc[w] = "err_blocked2"
Blocked(w) == OnReadyForNewRequest(w) \/ OnHaveResponse(w)
InTask(w) == wpc[w] \in {"run", "log_blocked", "err_blocked1",
                         "err_blocked2", "err_notify", "upd_bytes", "unwind"}

\* a notify_all that reaches no thread
NotifyNobody == woken

\* woken after notify_all on conditionReadyForNewRequest_ / conditionHaveResponse_
NotifyReadyForNewRequest == [w \in Devices |-> woken[w] \/ OnReadyForNewRequest(w)]
NotifyHaveResponse == [w \in Devices |-> woken[w] \/ OnHaveResponse(w)]

\* ---------------------------------------------------------------------
\* Initial state: a workload, a fresh AsyncCallback, no thread running
\* ---------------------------------------------------------------------
InitNoRequest ==
    /\ lockRequest_ = "free"
    /\ errorRequest_ = None /\ errorResponse_ = None /\ logInfoRequest_ = None
    /\ finishNowRequest_ = FALSE
    /\ itemsDeltaProcessed_ = 0 /\ bytesDeltaProcessed_ = 0
    /\ itemsDeltaTotal_ = 0 /\ bytesDeltaTotal_ = 0

InitAsyncCallback ==
    /\ InitNoRequest
    /\ statusByPriority_ = <<>>

InitNoThread ==
    /\ activeDeviceCount = 0
    /\ tasksSubmitted = [d \in Devices |-> 0]
    /\ tasksTaken = [d \in Devices |-> 0]
    /\ tasksPending = [d \in Devices |-> 0]
    /\ hookRegistered = [d \in Devices |-> FALSE]
    /\ stopRequested = [d \in Devices |-> FALSE]
    /\ destroyed = {}
    /\ mpc = "start" /\ mDev = 0 /\ mret = "loop" /\ failed = FALSE
    /\ deltaProcessed = <<0, 0>> /\ deltaTotal = <<0, 0>>
    /\ wpc = [d \in Devices |-> "nothread"]
    /\ warg = [d \in Devices |-> <<>>]
    /\ woken = [d \in Devices |-> FALSE]
    /\ opsUsed = 0
    /\ msgCalls = [d \in Devices |-> 0]
    /\ cbProcessed = <<0, 0>> /\ cbTotal = <<0, 0>> /\ cbLog = <<>> /\ cbErr = <<>>
    /\ posted = [c \in Counters |-> 0]
    /\ dirty = 0
    /\ logPosted = <<>>
    /\ errReturned = {}
    /\ allDoneCalls = 0
    /\ taskBegins = [d \in Devices |-> 0]
    /\ taskEnds = [d \in Devices |-> 0]
    /\ assertFailed = {}

InitRun ==
    /\ InitAsyncCallback
    /\ InitNoThread

InitNoItem ==
    /\ itemsReported_ = 0 /\ bytesReported_ = 0
    /\ itemsExpected_ = 0 /\ bytesExpected_ = 0
    /\ exeptionCount_ = 0
    /\ rpc = "none" /\ rcalls = 0 /\ rSum = <<0, 0>>
    /\ rProcessed = <<0, 0>> /\ rTotal = <<0, 0>>

\* the clock is left out: a wait of the main thread may time out at any time
InitNoRetry ==
    /\ tpc = "idle" /\ retryNumber = 0 /\ cmdCalls = 0
    /\ reportedErrors = <<>> /\ retryResponses = 0 /\ tresult = ""

\* lines 425-429: the member initializers of PercentStatReporter; time_point() is 0
InitPercentFields ==
    /\ lastUpdate_ = 0 /\ startTime_ = 0 /\ showPercent_ = FALSE
    /\ speedTest_ = <<>> /\ percentShown = <<>>
    /\ lastCheck = "none" /\ belowMinDuration = FALSE

InitNoPercent == now = 0 /\ InitPercentFields

InitNoStatusCall == spc = "idle" /\ currentStatus = <<>>

\* the critical sections of lockCurrentStatus_ are single steps
InitStatusLockUnobserved == lockCurrentStatus_ = <<"unobserved">>

\* no function is checked on its own
InitSideIdle ==
    InitNoRetry /\ InitNoPercent /\ InitStatusLockUnobserved /\ InitNoStatusCall

InitClockUnobserved == callbackTime = "unobserved" /\ drains = 0

Init ==
    /\ workload \in Workloads
    /\ InitRun
    /\ InitNoItem
    /\ InitClockUnobserved
    /\ InitSideIdle


\* std::lock_guard dummy(lockCurrentStatus_), lines 41, 136, 162, 247: the section is
\* run by the thread that has the mutex ...
StatusLockHeld(t) == lockCurrentStatus_ \in {<<"unobserved">>, t}

\* ... and its end releases the mutex
StatusUnlock ==
    IF lockCurrentStatus_ = <<"unobserved">> THEN <<"unobserved">> ELSE <<"free">>

\* ---------------------------------------------------------------------
\* AsyncCallback: status registry (under lockCurrentStatus_, one step each)
\* ---------------------------------------------------------------------
\* getThreadStatus(): is there an entry of thread w?
HasThreadStatus(w) ==
    \E p \in DOMAIN statusByPriority_ :
        \E i \in DOMAIN statusByPriority_[p] : statusByPriority_[p][i].threadId = w

\* notifyTaskBegin(prio): resize to prio + 1 buckets, push_back {threadId, L""}
RegistryPushBack(w, prio) ==
    LET n == IF Len(statusByPriority_) < prio + 1 THEN prio + 1 ELSE Len(statusByPriority_)
        resized == [p \in 1..n |-> IF p <= Len(statusByPriority_)
                                   THEN statusByPriority_[p] ELSE <<>>]
    IN  [resized EXCEPT ![prio + 1] = Append(@, [threadId |-> w, statusMsg |-> ""])]

\* notifyTaskEnd(): first entry of thread w in scan order: swap with back(), pop_back()
RegistryRemove(w) ==
    LET hits == {p \in DOMAIN statusByPriority_ :
                    \E i \in DOMAIN statusByPriority_[p] : statusByPriority_[p][i].threadId = w}
        p == MinOf(hits)
        sbp == statusByPriority_[p]
        i == MinOf({j \in DOMAIN sbp : sbp[j].threadId = w})
        swapped == [sbp EXCEPT ![i] = sbp[Len(sbp)], ![Len(sbp)] = sbp[i]]
    IN  [statusByPriority_ EXCEPT ![p] = SubSeq(swapped, 1, Len(sbp) - 1)]

\* the entries are counted instead of the buckets
ParallelOpsEntries ==
    Cardinality({e \in (DOMAIN statusByPriority_) \X (1..Cardinality(BucketSizes)) :
                    e[2] \in DOMAIN statusByPriority_[e[1]]})

\* lines 249-250: parallelOpsTotal += sbp.empty() ? 0 : 1
ParallelOpsTotal ==
    Cardinality({p \in DOMAIN statusByPriority_ : statusByPriority_[p] # <<>>})

\* getCurrentStatus(): threads = parallelOpsTotal when the "[N threads] " prefix is
\* added (0 when not), text = the first non-empty status message in scan order
getCurrentStatus ==
    LET parallelOpsTotal == ParallelOpsTotal
        hits == {p \in DOMAIN statusByPriority_ :
                    \E i \in DOMAIN statusByPriority_[p] : statusByPriority_[p][i].statusMsg # ""}
        statusMsg == IF hits = {} THEN ""
                     ELSE LET sbp == statusByPriority_[MinOf(hits)]
                          IN  sbp[MinOf({j \in DOMAIN sbp : sbp[j].statusMsg # ""})].statusMsg
    IN  [threads |-> IF parallelOpsTotal >= 2 THEN parallelOpsTotal ELSE 0, text |-> statusMsg]

\* the workload is never taken to be empty
WorkloadNeverEmpty == FALSE

\* line 480: perDeviceWorkload.empty()
WorkloadEmpty == DeviceKeys = {}

\* ---------------------------------------------------------------------
\* massParallelExecute, main thread: the thread groups are set up
\* ---------------------------------------------------------------------
\* one device too few is counted
ActiveDeviceCountShort == Cardinality(DeviceKeys) - 1

\* line 484: activeDeviceCount(perDeviceWorkload.size())
ActiveDeviceCountInit == Cardinality(DeviceKeys)

\* lines 476-484: group the workload by device; nothing to do for an empty one
MassParallelStart ==
    /\ mpc = "start"
    /\ IF WorkloadEmpty
       THEN /\ mpc' = "returned"
            /\ UNCHANGED <<mDev, activeDeviceCount>>
       ELSE /\ mpc' = (IF DeviceKeys = {} THEN "wud_top" ELSE "submit")
            /\ mDev' = (IF DeviceKeys = {} THEN mDev ELSE MinOf(DeviceKeys))
            /\ activeDeviceCount' = ActiveDeviceCountInit
    /\ UNCHANGED <<workload, chanVars, statusByPriority_, statVars, tasksSubmitted, tasksTaken,
                   tasksPending, hookRegistered, stopRequested, destroyed, mret, failed,
                   deltaProcessed, deltaTotal, workVars, cbVars, histVars, itemVars, sideVars, lockCurrentStatus_, uiVars>>

\* threadGroup.run(task): the next work item of device mDev is queued; the group's
\* one thread is created with the first
ThreadGroupRun ==
    /\ mpc = "submit"
    /\ tasksSubmitted[mDev] < perDeviceWorkload(mDev)
    /\ tasksSubmitted' = [tasksSubmitted EXCEPT ![mDev] = @ + 1]
    /\ tasksPending' = [tasksPending EXCEPT ![mDev] = @ + 1]
    /\ wpc' = [wpc EXCEPT ![mDev] = IF @ = "nothread" THEN "idle" ELSE @]
    /\ UNCHANGED <<workload, chanVars, statusByPriority_, statVars, activeDeviceCount, tasksTaken,
                   hookRegistered, stopRequested, destroyed, mainVars, warg, woken, opsUsed, msgCalls,
                   cbVars, histVars, itemVars, sideVars, lockCurrentStatus_, uiVars>>

\* after the loop body of one device: the next device of the map, or waitUntilDone
AfterDevice(d) == IF NextKeys(d) = {} THEN "wud_top" ELSE "submit"
AfterDeviceDev(d) == IF NextKeys(d) = {} THEN d ELSE MinOf(NextKeys(d))

\* every device counts as the last one
EveryDeviceLast == TRUE

\* line 510, --activeDeviceCount == 0: this was the last device with work
LastDeviceDone == activeDeviceCount - 1 = 0

\* threadGroup.notifyWhenDone(hook): the hook is kept for the worker thread, or, when
\* the group has no task pending, runs at once on the calling thread:
\* if (--activeDeviceCount == 0) acb.notifyAllDone();
ThreadGroupNotifyWhenDone ==
    /\ mpc = "submit"
    /\ tasksSubmitted[mDev] = perDeviceWorkload(mDev)
    /\ IF tasksPending[mDev] = 0
       THEN /\ activeDeviceCount' = activeDeviceCount - 1
            /\ mpc' = IF LastDeviceDone THEN "main_alldone" ELSE AfterDevice(mDev)
            /\ mDev' = IF LastDeviceDone THEN mDev ELSE AfterDeviceDev(mDev)
            /\ UNCHANGED hookRegistered
       ELSE /\ hookRegistered' = [hookRegistered EXCEPT ![mDev] = TRUE]
            /\ mpc' = AfterDevice(mDev)
            /\ mDev' = AfterDeviceDev(mDev)
            /\ UNCHANGED activeDeviceCount
    /\ UNCHANGED <<workload, chanVars, statusByPriority_, statVars, tasksSubmitted, tasksTaken,
                   tasksPending, stopRequested, destroyed, mret, failed, deltaProcessed, deltaTotal, workVars, cbVars, histVars, itemVars, sideVars, lockCurrentStatus_, uiVars>>

\* AsyncCallback::notifyAllDone(), the part on the channel (lock_guard on lockRequest_)
NotifyAllDoneChannel ==
    /\ lockRequest_ = "free"
    /\ assertFailed' = IF finishNowRequest_ THEN assertFailed \cup {"notifyAllDone"}
                       ELSE assertFailed
    /\ finishNowRequest_' = TRUE
    /\ allDoneCalls' = allDoneCalls + 1
    /\ UNCHANGED <<lockRequest_, errorRequest_, errorResponse_, logInfoRequest_>>

\* notifyAllDone() called by the hook on the main thread
MainNotifyAllDone ==
    /\ mpc = "main_alldone"
    /\ NotifyAllDoneChannel
    /\ mpc' = AfterDevice(mDev)
    /\ mDev' = AfterDeviceDev(mDev)
    /\ UNCHANGED <<workload, statusByPriority_, statVars, poolVars, mret, failed,
                   deltaProcessed, deltaTotal, workVars, cbVars, posted, dirty, logPosted,
                   errReturned, taskBegins, taskEnds, itemVars, sideVars, lockCurrentStatus_, uiVars>>


\* ---------------------------------------------------------------------
\* AsyncCallback::waitUntilDone, main thread
\* ---------------------------------------------------------------------
\* a predicate that always holds
NewRequestPredAlways == TRUE

\* the predicate of conditionNewRequest.wait_until, line 102
NewRequestPred ==
    \/ Has(errorRequest_) /\ ~Has(errorResponse_)
    \/ Has(logInfoRequest_)
    \/ finishNowRequest_

mainFrame == <<workload, statusByPriority_, statVars, poolVars, mDev, deltaProcessed,
               deltaTotal, wpc, warg, opsUsed, msgCalls, posted, logPosted, errReturned, allDoneCalls,
               taskBegins, taskEnds, itemVars, sideVars>>

\* lines 98-100: a new callbackTime; lockRequest_ is taken
WaitUntilDoneLock ==
    /\ mpc = "wud_top"
    /\ lockRequest_ = "free"
    /\ lockRequest_' = "main"
    /\ mpc' = "wud_wait"
    /\ callbackTime' = (IF callbackTime = "unobserved" THEN "unobserved" ELSE "ahead")
    /\ drains' = 0
    /\ UNCHANGED <<mainFrame, lockCurrentStatus_, errorRequest_, errorResponse_, logInfoRequest_,
                   finishNowRequest_, mret, failed, woken, cbVars, dirty,
                   assertFailed>>

\* line 102, wait_until: the predicate holds, or the main thread waits (mutex released)
WaitUntilDoneWait ==
    /\ mpc = "wud_wait"
    /\ IF NewRequestPred
       THEN /\ mpc' = "wud_handle"
            /\ UNCHANGED lockRequest_
       ELSE /\ mpc' = "wud_blocked"
            /\ lockRequest_' = "free"
    /\ UNCHANGED <<mainFrame, lockCurrentStatus_, uiVars, errorRequest_, errorResponse_, logInfoRequest_,
                   finishNowRequest_, mret, failed, woken, cbVars, dirty, assertFailed>>

\* lines 102-104: the wait ends, by notify_all on conditionNewRequest or at callbackTime,
\* with the mutex taken again. With the predicate true the request is handled; with it
\* false the wait goes on until callbackTime, when the loop is left (mutex released).
\* A notification only ends the wait earlier than callbackTime would: notify_all on
\* conditionNewRequest is no step of its own.
WaitUntilDoneTimeout ==
    /\ mpc = "wud_blocked"
    /\ lockRequest_ = "free"
    /\ IF NewRequestPred
       THEN /\ lockRequest_' = "main"
            /\ mpc' = "wud_handle"
       ELSE /\ callbackTime # "ahead"
            /\ mpc' = "tick"
            /\ UNCHANGED lockRequest_
    /\ UNCHANGED <<mainFrame, lockCurrentStatus_, uiVars, errorRequest_, errorResponse_, logInfoRequest_,
                   finishNowRequest_, mret, failed, woken, cbVars, dirty,
                   assertFailed>>

\* a request counts as unanswered as long as it is stored
ErrorRequestStored == Has(errorRequest_)

\* line 106: errorRequest_ && !errorResponse_
ErrorPending == Has(errorRequest_) /\ ~Has(errorResponse_)

\* lines 106-111: an unanswered error request is answered by cb.reportError, the
\* response stored (conditionHaveResponse_ is notified with the rest of the step)
HandleErrorRequest(rv) ==
    IF ErrorPending
    THEN /\ assertFailed' = IF finishNowRequest_ THEN assertFailed \cup {"waitUntilDone"}
                            ELSE assertFailed
         /\ errorResponse_' = Some(rv)
         /\ cbErr' = Append(cbErr, <<Val(errorRequest_), rv>>)
    ELSE UNCHANGED <<assertFailed, errorResponse_, cbErr>>

\* the log request is passed to cb.logInfo and left in the slot
HandleLogRequestKeepSlot ==
    IF Has(logInfoRequest_)
    THEN /\ cbLog' = Append(cbLog, Val(logInfoRequest_))
         /\ dirty' = 0
         /\ UNCHANGED logInfoRequest_
    ELSE UNCHANGED <<cbLog, logInfoRequest_, dirty>>

\* lines 112-117: a log request is passed to cb.logInfo and the slot cleared
\* (conditionReadyForNewRequest_ is notified with the rest of the step)
HandleLogRequest ==
    IF Has(logInfoRequest_)
    THEN /\ cbLog' = Append(cbLog, Val(logInfoRequest_))
         /\ logInfoRequest_' = None
         /\ dirty' = 0
    ELSE UNCHANGED <<cbLog, logInfoRequest_, dirty>>

\* the loop is left without a last reportStats
FinishNowNoReportStats == "teardown"

\* lines 118-123: finishNowRequest_ ends the loop: unlock, reportStats(cb), return
FinishNowReportStats == "rsP_load"

\* reportStats is called with the lock
FinishNowKeepsLock == "main"

\* line 120: dummy.unlock()
FinishNowUnlock == "free"

\* lines 106-123, one pass under lockRequest_ with a callback that returns: the error
\* request, the log request, then finishNowRequest_, which ends the loop with one last
\* reportStats (mutex released)
WaitUntilDoneHandle ==
    /\ mpc = "wud_handle"
    /\ \E rv \in Responses : HandleErrorRequest(rv)
    /\ HandleLogRequest
    /\ woken' = [w \in Devices |-> \/ woken[w]
                                   \/ ErrorPending /\ OnHaveResponse(w)
                                   \/ Has(logInfoRequest_) /\ OnReadyForNewRequest(w)]
    /\ IF finishNowRequest_
       THEN /\ lockRequest_' = FinishNowUnlock
            /\ mret' = "return"
            /\ mpc' = FinishNowReportStats
       ELSE /\ mpc' = "wud_wait"
            /\ UNCHANGED <<lockRequest_, mret>>
    /\ drains' = (IF callbackTime = "reached" THEN drains + 1 ELSE drains)
    /\ UNCHANGED <<mainFrame, lockCurrentStatus_, callbackTime, errorRequest_, finishNowRequest_, failed,
                   cbProcessed, cbTotal>>

\* the lock stays with the main thread when the call throws
UnwindKeepsLock == "main"

\* line 100: the std::unique_lock is destructed when an exception leaves the loop
UnwindUnlock == "free"

\* line 109: cb.reportError throws; the unique_lock releases the mutex on the way out
WaitUntilDoneErrorThrows ==
    /\ mpc = "wud_handle"
    /\ ErrorPending
    /\ assertFailed' = IF finishNowRequest_ THEN assertFailed \cup {"waitUntilDone"}
                       ELSE assertFailed
    /\ cbErr' = Append(cbErr, <<Val(errorRequest_), "throw">>)
    /\ lockRequest_' = UnwindUnlock
    /\ failed' = TRUE
    /\ mpc' = "teardown"
    /\ UNCHANGED <<mainFrame, lockCurrentStatus_, uiVars, errorRequest_, errorResponse_, logInfoRequest_,
                   finishNowRequest_, mret, woken, cbProcessed, cbTotal, cbLog,
                   dirty>>

\* line 114: cb.logInfo throws, after the error request, if any, was answered
WaitUntilDoneLogThrows ==
    /\ mpc = "wud_handle"
    /\ Has(logInfoRequest_)
    /\ \E rv \in Responses : HandleErrorRequest(rv)
    /\ woken' = [w \in Devices |-> woken[w] \/ (ErrorPending /\ OnHaveResponse(w))]
    /\ lockRequest_' = UnwindUnlock
    /\ failed' = TRUE
    /\ mpc' = "teardown"
    /\ UNCHANGED <<mainFrame, lockCurrentStatus_, uiVars, errorRequest_, logInfoRequest_, finishNowRequest_, mret,
                   cbProcessed, cbTotal, cbLog, dirty>>

\* line 127: cb.updateStatus(getCurrentStatus()) returns, outside of the mutex; the
\* text passed is getCurrentStatus of this state
WaitUntilDoneTick ==
    /\ mpc = "tick"
    /\ StatusLockHeld(<<"main">>)
    /\ lockCurrentStatus_' = StatusUnlock
    /\ mret' = "loop"
    /\ mpc' = "rsP_load"
    /\ UNCHANGED <<mainFrame, uiVars, chanVars, failed, woken, cbProcessed, cbTotal,
                   cbLog, cbErr, dirty, assertFailed>>

\* line 127: cb.updateStatus throws
WaitUntilDoneTickThrows ==
    /\ mpc = "tick"
    /\ StatusLockHeld(<<"main">>)
    /\ lockCurrentStatus_' = StatusUnlock
    /\ failed' = TRUE
    /\ mpc' = "teardown"
    /\ UNCHANGED <<mainFrame, uiVars, chanVars, mret, woken, cbVars, dirty, assertFailed>>


\* ---------------------------------------------------------------------
\* AsyncCallback::reportStats, main thread, no lock held
\* ---------------------------------------------------------------------
RsPc(kind, step) ==
    CASE kind = "processed" /\ step = "load"      -> "rsP_load"
      [] kind = "processed" /\ step = "loadItems" -> "rsP_loadItems"
      [] kind = "processed" /\ step = "loadBytes" -> "rsP_loadBytes"
      [] kind = "processed" /\ step = "addItems"  -> "rsP_addItems"
      [] kind = "processed" /\ step = "addBytes"  -> "rsP_addBytes"
      [] kind = "processed" /\ step = "forward"   -> "rsP_forward"
      [] kind = "total" /\ step = "load"      -> "rsT_load"
      [] kind = "total" /\ step = "loadItems" -> "rsT_loadItems"
      [] kind = "total" /\ step = "loadBytes" -> "rsT_loadBytes"
      [] kind = "total" /\ step = "addItems"  -> "rsT_addItems"
      [] kind = "total" /\ step = "addBytes"  -> "rsT_addBytes"
      [] kind = "total" /\ step = "forward"   -> "rsT_forward"

\* the local pair deltaProcessed / deltaTotal
RsLocal(kind) == IF kind = "processed" THEN deltaProcessed ELSE deltaTotal
RsSetLocal(kind, v) ==
    IF kind = "processed"
    THEN deltaProcessed' = v /\ UNCHANGED deltaTotal
    ELSE deltaTotal' = v /\ UNCHANGED deltaProcessed

\* where the main thread goes on after the pair of one kind
RsAfter(kind) ==
    IF kind = "processed" THEN "rsT_load"
    ELSE IF mret = "return" THEN "teardown" ELSE "wud_top"

rsFrame == <<workload, chanVars, statusByPriority_, poolVars, mDev, mret, failed, workVars, cbLog, cbErr, histVars, itemVars, sideVars, lockCurrentStatus_, uiVars>>

\* the counter is set to zero, whatever it holds by now
DrainStoreZero(c, d) == AtomicAdd(c, -Load(c))

\* lines 228, 234: the value read is given back to the counter by adding its negation
DrainAdd(c, d) == AtomicAdd(c, -d)

\* lines 225, 231: the pair's constructor reads the two counters, one after the other,
\* in an order the compiler chooses
ReportStatsLoadFirst(kind) ==
    /\ mpc = RsPc(kind, "load")
    /\ \/ /\ RsSetLocal(kind, <<Load(ItemsOf(kind)), 0>>)
          /\ mpc' = RsPc(kind, "loadBytes")
       \/ /\ RsSetLocal(kind, <<0, Load(BytesOf(kind))>>)
          /\ mpc' = RsPc(kind, "loadItems")
    /\ UNCHANGED <<rsFrame, statVars, cbProcessed, cbTotal>>

\* lines 225-226, 231-232: the other counter is read; nothing to do for a pair of zeros
ReportStatsLoadSecond(kind) ==
    LET pair == IF mpc = RsPc(kind, "loadBytes")
                THEN <<RsLocal(kind)[1], Load(BytesOf(kind))>>
                ELSE <<Load(ItemsOf(kind)), RsLocal(kind)[2]>>
    IN  /\ mpc \in {RsPc(kind, "loadBytes"), RsPc(kind, "loadItems")}
        /\ IF pair[1] # 0 \/ pair[2] # 0
           THEN /\ RsSetLocal(kind, pair)
                /\ mpc' = RsPc(kind, "addItems")
           ELSE /\ RsSetLocal(kind, <<0, 0>>)
                /\ mpc' = RsAfter(kind)
        /\ UNCHANGED <<rsFrame, statVars, cbProcessed, cbTotal>>

\* lines 228, 234: itemsDelta..._ += -delta.first
ReportStatsAddItems(kind) ==
    /\ mpc = RsPc(kind, "addItems")
    /\ DrainAdd(ItemsOf(kind), RsLocal(kind)[1])
    /\ mpc' = RsPc(kind, "addBytes")
    /\ UNCHANGED <<rsFrame, deltaProcessed, deltaTotal, cbProcessed, cbTotal>>

\* lines 228, 234: bytesDelta..._ += -delta.second
ReportStatsAddBytes(kind) ==
    /\ mpc = RsPc(kind, "addBytes")
    /\ DrainAdd(BytesOf(kind), RsLocal(kind)[2])
    /\ mpc' = RsPc(kind, "forward")
    /\ UNCHANGED <<rsFrame, deltaProcessed, deltaTotal, cbProcessed, cbTotal>>

\* lines 229, 235: cb.updateDataProcessed / cb.updateDataTotal with the pair read
ReportStatsForward(kind) ==
    LET pair == RsLocal(kind)
    IN  /\ mpc = RsPc(kind, "forward")
        /\ IF kind = "processed"
           THEN /\ cbProcessed' = <<cbProcessed[1] + pair[1], cbProcessed[2] + pair[2]>>
                /\ UNCHANGED cbTotal
           ELSE /\ cbTotal' = <<cbTotal[1] + pair[1], cbTotal[2] + pair[2]>>
                /\ UNCHANGED cbProcessed
        /\ RsSetLocal(kind, <<0, 0>>)
        /\ mpc' = RsAfter(kind)
        /\ UNCHANGED <<rsFrame, statVars>>

\* ---------------------------------------------------------------------
\* massParallelExecute is left: the thread groups are destructed
\* ---------------------------------------------------------------------
\* ~ThreadGroup of one device: its worker thread is asked to stop (a thread in an
\* interruptible wait is woken) ...
ThreadGroupRequestStop ==
    /\ mpc = "teardown"
    /\ \E d \in DeviceKeys \ destroyed :
          /\ mDev' = d
          /\ stopRequested' = [stopRequested EXCEPT ![d] = TRUE]
          /\ woken' = [woken EXCEPT ![d] = @ \/ Blocked(d)]
    /\ mpc' = "join"
    /\ UNCHANGED <<workload, chanVars, statusByPriority_, statVars, activeDeviceCount,
                   tasksSubmitted, tasksTaken, tasksPending, hookRegistered, destroyed, mret,
                   failed, deltaProcessed, deltaTotal, wpc, warg, opsUsed, msgCalls, cbVars,
                   histVars, itemVars, sideVars, lockCurrentStatus_, uiVars>>

\* ... and joined; after the last group massParallelExecute returns or throws
ThreadGroupJoin ==
    /\ mpc = "join"
    /\ wpc[mDev] = "exited"
    /\ destroyed' = destroyed \cup {mDev}
    /\ mpc' = IF destroyed \cup {mDev} # DeviceKeys THEN "teardown"
              ELSE IF failed THEN "thrown" ELSE "returned"
    /\ UNCHANGED <<workload, chanVars, statusByPriority_, statVars, activeDeviceCount,
                   tasksSubmitted, tasksTaken, tasksPending, hookRegistered, stopRequested,
                   mDev, mret, failed, deltaProcessed, deltaTotal, workVars, cbVars,
                   histVars, itemVars, sideVars, lockCurrentStatus_, uiVars>>


\* ---------------------------------------------------------------------
\* Worker threads: the thread group's loop and the task of lines 499-506
\* ---------------------------------------------------------------------
workFrame == <<workload, lockRequest_, finishNowRequest_, activeDeviceCount, tasksSubmitted,
               stopRequested, destroyed, mpc, mDev, mret, failed, deltaProcessed, deltaTotal,
               cbVars, allDoneCalls, itemVars, sideVars, uiVars>>

\* the thread group's thread, waiting for a task, is stopped and ends
ThreadGroupThreadStopped(w) ==
    /\ wpc[w] = "idle"
    /\ stopRequested[w]
    /\ wpc' = [wpc EXCEPT ![w] = "exited"]
    /\ UNCHANGED <<workFrame, lockCurrentStatus_, errorRequest_, errorResponse_, logInfoRequest_,
                   statusByPriority_, statVars, tasksTaken, tasksPending, hookRegistered,
                   warg, woken, opsUsed, msgCalls, posted, dirty, logPosted, errReturned,
                   taskBegins, taskEnds, assertFailed>>

\* the thread group's thread takes the next queued task, which begins with
\* line 501, AsyncCallback::notifyTaskBegin(statusPrio)
NotifyTaskBegin(w) ==
    /\ wpc[w] = "idle"
    /\ StatusLockHeld(<<"worker", w>>)
    /\ lockCurrentStatus_' = StatusUnlock
    /\ ~stopRequested[w] \/ lockCurrentStatus_ = <<"worker", w>>
    /\ tasksTaken[w] < tasksSubmitted[w]
    /\ tasksTaken' = [tasksTaken EXCEPT ![w] = @ + 1]
    /\ assertFailed' = IF HasThreadStatus(w) THEN assertFailed \cup {"notifyTaskBegin"}
                       ELSE assertFailed
    /\ statusByPriority_' = RegistryPushBack(w, statusPrio(w))
    /\ taskBegins' = [taskBegins EXCEPT ![w] = @ + 1]
    /\ wpc' = [wpc EXCEPT ![w] = "run"]
    /\ UNCHANGED <<workFrame, errorRequest_, errorResponse_, logInfoRequest_, statVars,
                   tasksPending, hookRegistered, warg, woken, opsUsed, msgCalls,
                   posted, dirty, logPosted, errReturned, taskEnds>>

\* AsyncCallback::notifyTaskEnd() on the registry: the thread's entry is removed,
\* assert(false) when there is none
NotifyTaskEndRegistry(w) ==
    /\ IF HasThreadStatus(w)
       THEN /\ statusByPriority_' = RegistryRemove(w)
            /\ UNCHANGED assertFailed
       ELSE /\ assertFailed' = assertFailed \cup {"notifyTaskEnd"}
            /\ UNCHANGED statusByPriority_
    /\ taskEnds' = [taskEnds EXCEPT ![w] = @ + 1]

\* the scope of the task is left without notifyTaskEnd
ScopeExitNothing(w) == UNCHANGED <<statusByPriority_, assertFailed, taskEnds>>

\* line 502, ZEN_ON_SCOPE_EXIT(acb.notifyTaskEnd()): the scope of the task is left,
\* by return or by ThreadStopRequest
ScopeExitNotifyTaskEnd(w) ==
    /\ StatusLockHeld(<<"worker", w>>)
    /\ NotifyTaskEndRegistry(w)

\* the work item returns: notifyTaskEnd, back in the thread group's loop
TaskReturns(w) ==
    /\ wpc[w] = "run"
    /\ lockCurrentStatus_' = StatusUnlock
    /\ ScopeExitNotifyTaskEnd(w)
    /\ wpc' = [wpc EXCEPT ![w] = "task_done"]
    /\ UNCHANGED <<workFrame, errorRequest_, errorResponse_, logInfoRequest_, statVars,
                   tasksTaken, tasksPending, hookRegistered, warg, woken, opsUsed, msgCalls,
                   posted, dirty, logPosted, errReturned, taskBegins>>

\* the task is left by ThreadStopRequest: notifyTaskEnd, the thread ends
TaskThrows(w) ==
    /\ wpc[w] = "unwind"
    /\ lockCurrentStatus_' = StatusUnlock
    /\ ScopeExitNotifyTaskEnd(w)
    /\ wpc' = [wpc EXCEPT ![w] = "exited"]
    /\ UNCHANGED <<workFrame, errorRequest_, errorResponse_, logInfoRequest_, statVars,
                   tasksTaken, tasksPending, hookRegistered, warg, woken, opsUsed, msgCalls,
                   posted, dirty, logPosted, errReturned, taskBegins>>

\* the thread group, after a task: --tasksPending; when no task is pending the hook
\* of notifyWhenDone runs on this thread, lines 508-512: if (--activeDeviceCount == 0)
ThreadGroupTaskDone(w) ==
    /\ wpc[w] = "task_done"
    /\ tasksPending' = [tasksPending EXCEPT ![w] = @ - 1]
    /\ IF tasksPending[w] - 1 = 0 /\ hookRegistered[w]
       THEN /\ hookRegistered' = [hookRegistered EXCEPT ![w] = FALSE]
            /\ activeDeviceCount' = activeDeviceCount - 1
            /\ wpc' = [wpc EXCEPT ![w] = IF LastDeviceDone THEN "alldone" ELSE "idle"]
       ELSE /\ wpc' = [wpc EXCEPT ![w] = "idle"]
            /\ UNCHANGED <<hookRegistered, activeDeviceCount>>
    /\ UNCHANGED <<workload, chanVars, statusByPriority_, statVars, tasksSubmitted, tasksTaken,
                   stopRequested, destroyed, mainVars, warg, woken, opsUsed, msgCalls, cbVars, histVars,
                   itemVars, sideVars, lockCurrentStatus_, uiVars>>

\* line 511, acb.notifyAllDone() on the worker thread
WorkerNotifyAllDone(w) ==
    /\ wpc[w] = "alldone"
    /\ NotifyAllDoneChannel
    /\ wpc' = [wpc EXCEPT ![w] = "idle"]
    /\ UNCHANGED <<workload, statusByPriority_, statVars, poolVars, mpc, mDev, mret, failed,
                   deltaProcessed, deltaTotal, warg, woken, opsUsed, msgCalls, cbVars, posted, dirty,
                   logPosted, errReturned, taskBegins, taskEnds, itemVars, sideVars, lockCurrentStatus_, uiVars>>


\* ---------------------------------------------------------------------
\* The work item (task(pctx), line 505): any calls on the AsyncCallback
\* ---------------------------------------------------------------------
\* lines 25-34, updateDataProcessed / updateDataTotal called by the work item:
\* the first statement, items..._ += itemsDelta
UpdateDataItems(w) ==
    /\ wpc[w] = "run"
    /\ opsUsed < MaxOps
    /\ opsUsed' = opsUsed + 1
    /\ \E d \in WorkDeltas :
          /\ AtomicAdd(ItemsOf(d[1]), d[2])
          /\ posted' = [posted EXCEPT ![ItemsOf(d[1])] = @ + d[2]]
          /\ dirty' = IF d[1] = "processed" /\ Has(logInfoRequest_)
                         /\ Val(logInfoRequest_)[1] = w
                      THEN dirty + d[2] ELSE dirty
          /\ warg' = [warg EXCEPT ![w] = <<d[1], d[3]>>]
    /\ UNCHANGED msgCalls
    /\ wpc' = [wpc EXCEPT ![w] = "upd_bytes"]
    /\ UNCHANGED <<workFrame, lockCurrentStatus_, errorRequest_, errorResponse_, logInfoRequest_,
                   statusByPriority_, tasksTaken, tasksPending, hookRegistered, woken, logPosted, errReturned, taskBegins, taskEnds, assertFailed>>

\* lines 25-34: the second statement, bytes..._ += bytesDelta
UpdateDataBytes(w) ==
    /\ wpc[w] = "upd_bytes"
    /\ AtomicAdd(BytesOf(warg[w][1]), warg[w][2])
    /\ posted' = [posted EXCEPT ![BytesOf(warg[w][1])] = @ + warg[w][2]]
    /\ warg' = [warg EXCEPT ![w] = <<>>]
    /\ wpc' = [wpc EXCEPT ![w] = "run"]
    /\ UNCHANGED <<workFrame, lockCurrentStatus_, errorRequest_, errorResponse_, logInfoRequest_,
                   statusByPriority_, tasksTaken, tasksPending, hookRegistered, woken, opsUsed, msgCalls, dirty, logPosted, errReturned, taskBegins, taskEnds,
                   assertFailed>>

\* ---------------------------------------------------------------------
\* AsyncCallback::logInfo, worker thread
\* ---------------------------------------------------------------------
\* a wait that never waits
LogInfoPredAlways == TRUE

\* line 56, the predicate of the interruptible wait
LogInfoPred == ~Has(logInfoRequest_)

\* lines 55-61 under lockRequest_: ThreadStopRequest when stopped; else the message is
\* stored once the slot is empty and logInfo returns; else the thread waits on
\* conditionReadyForNewRequest_
LogInfoCritical(w, msg) ==
    /\ lockRequest_ = "free"
    /\ IF stopRequested[w]
       THEN /\ wpc' = [wpc EXCEPT ![w] = "unwind"]
            /\ warg' = [warg EXCEPT ![w] = <<>>]
            /\ UNCHANGED <<logInfoRequest_, logPosted>>
       ELSE IF LogInfoPred
       THEN /\ logInfoRequest_' = Some(msg)
            /\ logPosted' = Append(logPosted, msg)
            /\ wpc' = [wpc EXCEPT ![w] = "run"]
            /\ warg' = [warg EXCEPT ![w] = <<>>]
       ELSE /\ wpc' = [wpc EXCEPT ![w] = "log_blocked"]
            /\ warg' = [warg EXCEPT ![w] = msg]
            /\ UNCHANGED <<logInfoRequest_, logPosted>>
    /\ woken' = [woken EXCEPT ![w] = FALSE]
    /\ UNCHANGED <<workFrame, lockCurrentStatus_, errorRequest_, errorResponse_, statusByPriority_, statVars,
                   tasksTaken, tasksPending, hookRegistered, posted,
                   dirty, errReturned, taskBegins, taskEnds, assertFailed>>

\* the work item calls acb.logInfo(msg); the message is named by caller and call
LogInfoEnter(w) ==
    /\ wpc[w] = "run"
    /\ opsUsed < MaxOps
    /\ opsUsed' = opsUsed + 1
    /\ msgCalls' = [msgCalls EXCEPT ![w] = @ + 1]
    /\ LogInfoCritical(w, <<w, msgCalls[w] + 1>>)

\* the waiting thread was woken and evaluates the predicate again
LogInfoWake(w) ==
    /\ wpc[w] = "log_blocked"
    /\ woken[w]
    /\ UNCHANGED <<opsUsed, msgCalls>>
    /\ LogInfoCritical(w, warg[w])

\* ---------------------------------------------------------------------
\* AsyncCallback::reportError, worker thread
\* ---------------------------------------------------------------------
\* a predicate that looks at the response only
ReportErrorPredResponseOnly == ~Has(errorResponse_)

\* line 75, the predicate of the first interruptible wait
ReportErrorPred == ~Has(errorRequest_) /\ ~Has(errorResponse_)

\* lines 74-80 under lockRequest_: ThreadStopRequest when stopped; else the request is
\* stored once request and response are empty, conditionNewRequest is notified and the
\* thread waits on conditionHaveResponse_ (at once awake if a response is there);
\* else the thread waits on conditionReadyForNewRequest_
ReportErrorCritical(w, errorInfo) ==
    /\ lockRequest_ = "free"
    /\ IF stopRequested[w]
       THEN /\ wpc' = [wpc EXCEPT ![w] = "unwind"]
            /\ warg' = [warg EXCEPT ![w] = <<>>]
            /\ woken' = [woken EXCEPT ![w] = FALSE]
            /\ UNCHANGED errorRequest_
       ELSE IF ReportErrorPred
       THEN /\ errorRequest_' = Some(errorInfo)
                    /\ wpc' = [wpc EXCEPT ![w] = "err_blocked2"]
            /\ warg' = [warg EXCEPT ![w] = errorInfo]
            /\ woken' = [woken EXCEPT ![w] = Has(errorResponse_)]
       ELSE /\ wpc' = [wpc EXCEPT ![w] = "err_blocked1"]
            /\ warg' = [warg EXCEPT ![w] = errorInfo]
            /\ woken' = [woken EXCEPT ![w] = FALSE]
            /\ UNCHANGED errorRequest_
    /\ UNCHANGED <<workFrame, lockCurrentStatus_, errorResponse_, logInfoRequest_, statusByPriority_, statVars,
                   tasksTaken, tasksPending, hookRegistered, posted, dirty,
                   logPosted, errReturned, taskBegins, taskEnds, assertFailed>>

\* the work item calls acb.reportError(errorInfo); the error is named by caller and call
ReportErrorEnter(w) ==
    /\ wpc[w] = "run"
    /\ opsUsed < MaxOps
    /\ opsUsed' = opsUsed + 1
    /\ msgCalls' = [msgCalls EXCEPT ![w] = @ + 1]
    /\ ReportErrorCritical(w, <<w, msgCalls[w] + 1>>)

\* the thread waiting for a free slot was woken and evaluates the predicate again
ReportErrorWake(w) ==
    /\ wpc[w] = "err_blocked1"
    /\ woken[w]
    /\ UNCHANGED <<opsUsed, msgCalls>>
    /\ ReportErrorCritical(w, warg[w])

\* lines 80-87: woken in the second wait; ThreadStopRequest when stopped; with a
\* response, it is read and request and response are cleared; else the wait goes on
ReportErrorHaveResponse(w) ==
    /\ wpc[w] = "err_blocked2"
    /\ woken[w]
    /\ lockRequest_ = "free"
    /\ IF stopRequested[w]
       THEN /\ wpc' = [wpc EXCEPT ![w] = "unwind"]
            /\ warg' = [warg EXCEPT ![w] = <<>>]
            /\ UNCHANGED <<errorRequest_, errorResponse_, errReturned>>
       ELSE IF Has(errorResponse_)
       THEN /\ errReturned' = errReturned \cup {<<warg[w], Val(errorResponse_)>>}
            /\ errorRequest_' = None
            /\ errorResponse_' = None
            /\ wpc' = [wpc EXCEPT ![w] = "err_notify"]
            /\ warg' = [warg EXCEPT ![w] = <<>>]
       ELSE UNCHANGED <<wpc, warg, errorRequest_, errorResponse_, errReturned>>
    /\ woken' = [woken EXCEPT ![w] = FALSE]
    /\ UNCHANGED <<workFrame, lockCurrentStatus_, logInfoRequest_, statusByPriority_, statVars, tasksTaken,
                   tasksPending, hookRegistered, opsUsed, msgCalls, posted, dirty, logPosted,
                   taskBegins, taskEnds, assertFailed>>

\* line 88: conditionReadyForNewRequest_.notify_all(), after the unlock; rv is returned
ReportErrorNotify(w) ==
    /\ wpc[w] = "err_notify"
    /\ woken' = NotifyReadyForNewRequest
    /\ wpc' = [wpc EXCEPT ![w] = "run"]
    /\ UNCHANGED <<workFrame, lockCurrentStatus_, errorRequest_, errorResponse_, logInfoRequest_,
                   statusByPriority_, statVars, tasksTaken, tasksPending, hookRegistered,
                   warg, opsUsed, msgCalls, posted, dirty, logPosted, errReturned,
                   taskBegins, taskEnds, assertFailed>>

\* a thread in an interruptible wait wakes without a notification
SpuriousWakeup(w) ==
    /\ Blocked(w)
    /\ ~woken[w]
    /\ woken' = [woken EXCEPT ![w] = TRUE]
    /\ UNCHANGED <<workFrame, lockCurrentStatus_, errorRequest_, errorResponse_, logInfoRequest_,
                   statusByPriority_, statVars, tasksTaken, tasksPending, hookRegistered,
                   wpc, warg, opsUsed, msgCalls, posted, dirty, logPosted, errReturned,
                   taskBegins, taskEnds, assertFailed>>

\* ---------------------------------------------------------------------
\* A run of massParallelExecute
\* ---------------------------------------------------------------------
MainStep ==
    \/ MassParallelStart
    \/ ThreadGroupRun
    \/ ThreadGroupNotifyWhenDone
    \/ MainNotifyAllDone
    \/ WaitUntilDoneLock
    \/ WaitUntilDoneWait
    \/ WaitUntilDoneTimeout
    \/ WaitUntilDoneHandle
    \/ WaitUntilDoneErrorThrows
    \/ WaitUntilDoneLogThrows
    \/ WaitUntilDoneTick
    \/ WaitUntilDoneTickThrows
    \/ \E kind \in {"processed", "total"} :
          \/ ReportStatsLoadFirst(kind)
          \/ ReportStatsLoadSecond(kind)
          \/ ReportStatsAddItems(kind)
          \/ ReportStatsAddBytes(kind)
          \/ ReportStatsForward(kind)
    \/ ThreadGroupRequestStop
    \/ ThreadGroupJoin

WorkerStep(w) ==
    \/ ThreadGroupThreadStopped(w)
    \/ NotifyTaskBegin(w)
    \/ UpdateDataItems(w)
    \/ UpdateDataBytes(w)
    \/ LogInfoEnter(w)
    \/ LogInfoWake(w)
    \/ ReportErrorEnter(w)
    \/ ReportErrorWake(w)
    \/ ReportErrorHaveResponse(w)
    \/ ReportErrorNotify(w)
    \/ SpuriousWakeup(w)
    \/ TaskReturns(w)
    \/ TaskThrows(w)
    \/ ThreadGroupTaskDone(w)
    \/ WorkerNotifyAllDone(w)

Next == MainStep \/ \E w \in Devices : WorkerStep(w)

Spec == Init /\ [][Next]_vars

\* a run of massParallelExecute whose workers are not cut short
\* (scheduling of the main thread is fair: it is a running thread)
FairSpec == Spec /\ WF_vars(MainStep)

\* =====================================================================
\* Properties
\* =====================================================================
\* waitUntilDone has returned normally (line 122)
WaitUntilDoneReturned == mret = "return" /\ mpc \in {"teardown", "join", "returned"}

\* what the external callback has received for a counter
Forwarded(c) ==
    CASE c = "itemsProcessed" -> cbProcessed[1]
      [] c = "bytesProcessed" -> cbProcessed[2]
      [] c = "itemsTotal"     -> cbTotal[1]
      [] c = "bytesTotal"     -> cbTotal[2]

\* what reportStats has taken off a counter and not yet passed to the callback
InDrain(c) ==
    CASE c = "itemsProcessed" ->
            IF mpc \in {"rsP_addBytes", "rsP_forward"} THEN deltaProcessed[1] ELSE 0
      [] c = "bytesProcessed" -> IF mpc = "rsP_forward" THEN deltaProcessed[2] ELSE 0
      [] c = "itemsTotal" ->
            IF mpc \in {"rsT_addBytes", "rsT_forward"} THEN deltaTotal[1] ELSE 0
      [] c = "bytesTotal" -> IF mpc = "rsT_forward" THEN deltaTotal[2] ELSE 0

\* C1. Counter conservation: in every state of every interleaving of worker updates and
\* main-thread drains, for each of the four counters, what the external callback has
\* received plus what the atomic still holds (plus what a drain has taken off the atomic
\* and is about to forward) is the sum of the deltas the workers posted: nothing is
\* lost, nothing is forwarded twice.
C1_CounterConservation ==
    \A c \in Counters : Forwarded(c) + Load(c) + InDrain(c) = posted[c]

\* C1 witness: a worker has added to the counter between the drain's read and its
\* negate-add (or right after): the drain took off 1 and the counter is not zero
C1_Witness ==
    /\ mpc = "rsP_addBytes"
    /\ deltaProcessed[1] > 0
    /\ itemsDeltaProcessed_ > 0

\* C2. At most one error in flight: a stored error request is never replaced by another
\* one, and request and response are cleared only together, by the thread that stored
\* the request, in the step in which it reads the response.
C2_OneErrorInFlight ==
    [][ (Has(errorRequest_) /\ errorRequest_' # errorRequest_)
           \/ (Has(errorResponse_) /\ errorResponse_' # errorResponse_)
        => /\ Has(errorRequest_) /\ Has(errorResponse_)
           /\ errorRequest_' = None /\ errorResponse_' = None
           /\ wpc[Val(errorRequest_)[1]] = "err_blocked2"
           /\ wpc'[Val(errorRequest_)[1]] = "err_notify"
           /\ <<Val(errorRequest_), Val(errorResponse_)>> \in errReturned' ]_vars

\* C2 witness: one worker's request is stored and another worker's reportError waits
C2_Witness ==
    /\ Has(errorRequest_)
    /\ \E w \in Devices : wpc[w] = "err_blocked1" /\ Val(errorRequest_)[1] # w

\* C3. Error rendezvous: every reportError that returned was answered by exactly one
\* call of the external callback's reportError with this very ErrorInfo, and returned
\* that call's Response; the external callback is called at most once per request.
C3_ErrorRendezvous ==
    /\ \A r \in errReturned :
          /\ Cardinality({i \in DOMAIN cbErr : cbErr[i][1] = r[1]}) = 1
          /\ \E i \in DOMAIN cbErr : cbErr[i] = r
    /\ \A i \in DOMAIN cbErr : \A j \in DOMAIN cbErr : cbErr[i][1] = cbErr[j][1] => i = j

\* C3 witness: the reportError calls of two workers have returned, with different responses
C3_Witness ==
    \E r1 \in errReturned : \E r2 \in errReturned : r1[1][1] # r2[1][1] /\ r1[2] # r2[2]

\* C4. Log-info serialization: the messages the external callback received are, in
\* order, the messages stored in the slot, but for the one still in the slot; a message
\* is stored only into an empty slot; when waitUntilDone has returned normally every
\* message of a logInfo call that returned was delivered exactly once.
C4_LogInfoSerialized ==
    /\ Len(cbLog) <= Len(logPosted)
    /\ cbLog = SubSeq(logPosted, 1, Len(cbLog))
    /\ Len(logPosted) - Len(cbLog) = IF Has(logInfoRequest_) THEN 1 ELSE 0
    /\ Has(logInfoRequest_) => Val(logInfoRequest_) = logPosted[Len(logPosted)]
    /\ \A i \in DOMAIN logPosted : \A j \in DOMAIN logPosted :
          logPosted[i] = logPosted[j] => i = j
    /\ WaitUntilDoneReturned => cbLog = logPosted /\ ~Has(logInfoRequest_)

\* C4 witness: two workers' messages were delivered and the run has ended normally
C4_Witness ==
    /\ WaitUntilDoneReturned
    /\ Len(cbLog) = 2
    /\ cbLog[1][1] # cbLog[2][1]

\* C5 as stated: no delta a worker posted after its logInfo(m) returned is forwarded
\* to the external callback before cb.logInfo(m) was called.
C5_AsStated == cbProcessed[1] + dirty <= posted["itemsProcessed"]

\* C5. What holds instead: logInfo(m) returns when m is stored in the request slot, not
\* when it is delivered. While a delta the worker posted afterwards exists and m is not
\* delivered, m is the pending request and every message stored before m has been
\* delivered; the delta may be forwarded before cb.logInfo(m).
C5_LogStoredBeforeStats ==
    dirty > 0 =>
        /\ Has(logInfoRequest_)
        /\ logPosted # <<>>
        /\ Val(logInfoRequest_) = logPosted[Len(logPosted)]
        /\ cbLog = SubSeq(logPosted, 1, Len(logPosted) - 1)
        /\ Val(logInfoRequest_) \notin {cbLog[i] : i \in DOMAIN cbLog}

\* C5 witness: the delta posted after logInfo(m) has been forwarded, m is still pending
C5_Witness ==
    /\ dirty > 0
    /\ cbProcessed[1] = posted["itemsProcessed"]
    /\ Has(logInfoRequest_)


\* the entries of thread w in the status registry
ThreadStatusCount(w) ==
    Cardinality({e \in (DOMAIN statusByPriority_) \X (1..Cardinality(Devices)) :
                    /\ e[2] \in DOMAIN statusByPriority_[e[1]]
                    /\ statusByPriority_[e[1]][e[2]].threadId = w})

\* C8. Task registration balance: on every thread notifyTaskBegin and notifyTaskEnd
\* alternate, beginning with notifyTaskBegin; the thread has one registry entry while
\* its work item runs and none otherwise, so notifyTaskEnd always finds the entry; a
\* thread that has ended, by return or by ThreadStopRequest, has called notifyTaskEnd as
\* often as notifyTaskBegin; after a normal return of waitUntilDone every work item
\* has begun and ended and every bucket of the registry is empty.
C8_TaskRegistrationBalance ==
    /\ \A w \in Devices :
          /\ taskEnds[w] <= taskBegins[w]
          /\ taskBegins[w] <= taskEnds[w] + 1
          /\ taskBegins[w] = tasksTaken[w]
          /\ InTask(w) <=> taskBegins[w] = taskEnds[w] + 1
          /\ ThreadStatusCount(w) = IF InTask(w) THEN 1 ELSE 0
          /\ InTask(w) => statusByPriority_[statusPrio(w) + 1][1].threadId = w
    /\ "notifyTaskEnd" \notin assertFailed
    /\ "notifyTaskBegin" \notin assertFailed
    /\ WaitUntilDoneReturned =>
          /\ \A w \in Devices : taskEnds[w] = perDeviceWorkload(w)
          /\ \A pr \in DOMAIN statusByPriority_ : statusByPriority_[pr] = <<>>

\* C8 witness: one thread was stopped inside its work item and has unwound through
\* notifyTaskEnd, another has run its work items to the end
C8_Witness ==
    \E w \in Devices : \E v \in Devices :
        /\ wpc[w] = "exited" /\ taskEnds[w] = taskBegins[w]
        /\ taskEnds[w] + tasksPending[w] > tasksSubmitted[w]
        /\ v # w /\ taskEnds[v] = perDeviceWorkload(v) /\ taskEnds[v] > 0

\* C9. Finish protocol: notifyAllDone is called at most once and never with
\* finishNowRequest_ already set; when it has been called activeDeviceCount is zero and
\* every work item of every device has begun and ended; waitUntilDone returns normally
\* only after the call.
C9_FinishProtocol ==
    /\ allDoneCalls <= 1
    /\ "notifyAllDone" \notin assertFailed
    /\ finishNowRequest_ <=> allDoneCalls = 1
    /\ allDoneCalls = 1 =>
          /\ activeDeviceCount = 0
          /\ \A d \in Devices : /\ taskEnds[d] = perDeviceWorkload(d)
                                /\ tasksSubmitted[d] = perDeviceWorkload(d)
                                /\ tasksPending[d] = 0
    /\ mret = "return" => allDoneCalls = 1
    /\ activeDeviceCount >= 0

\* C9 witness: a run over two devices has returned normally after one notifyAllDone
C9_Witness ==
    /\ mpc = "returned"
    /\ Cardinality(DeviceKeys) = 2
    /\ allDoneCalls = 1
    /\ mret = "return"

\* C10. Final drain and termination: once notifyAllDone has been called, waitUntilDone
\* returns unless the external callback fails; when it has returned normally the four
\* counters are zero, the log request slot is empty, every message stored was passed
\* to cb.logInfo and every delta posted was passed to cb.updateDataProcessed /
\* cb.updateDataTotal.
C10_FinalDrain ==
    /\ [](WaitUntilDoneReturned =>
             /\ \A c \in Counters : Load(c) = 0 /\ Forwarded(c) = posted[c]
             /\ ~Has(logInfoRequest_)
             /\ Len(cbLog) = Len(logPosted))
    /\ (finishNowRequest_ ~> (WaitUntilDoneReturned \/ failed))

\* C10 witness: waitUntilDone has returned with deltas of both kinds and a message
\* delivered, the message still pending when notifyAllDone was called or before
C10_Witness ==
    /\ WaitUntilDoneReturned
    /\ posted["itemsProcessed"] > 0
    /\ posted["itemsTotal"] > 0
    /\ cbTotal[2] < 0



\* C13. Callback failure: once reportError, logInfo or updateStatus of the external
\* callback has thrown inside waitUntilDone, lockRequest_ is released, the main thread
\* only destroys the thread groups and leaves massParallelExecute by the exception, and
\* the external callback is not called again in that run.
C13_CallbackFailure ==
    /\ [](failed => lockRequest_ = "free" /\ mpc \in {"teardown", "join", "thrown"})
    /\ [](mpc = "returned" => ~failed)
    /\ [][failed => failed' /\ cbVars' = cbVars]_vars

\* C13 witness: massParallelExecute was left by the exception with a log message still
\* in the slot, never passed to the external callback
C13_Witness ==
    /\ failed
    /\ mpc = "thrown"
    /\ Has(logInfoRequest_)
    /\ cbLog = <<>>


\* C15. Empty workload: massParallelExecute returns at line 481, before the
\* AsyncCallback and any thread group exist: no thread is created, waitUntilDone is not
\* entered and the external callback is not called.
C15_EmptyWorkload ==
    /\ [](workload = <<>> =>
            /\ mpc \in {"start", "returned"}
            /\ cbVars = <<<<0, 0>>, <<0, 0>>, <<>>, <<>>>>
            /\ \A d \in Devices : wpc[d] = "nothread" /\ tasksSubmitted[d] = 0
            /\ lockRequest_ = "free" /\ ~failed /\ allDoneCalls = 0)
    /\ [][workload = <<>> /\ mpc = "start" => mpc' = "returned"]_vars

\* C15 witness: massParallelExecute has returned from an empty workload
C15_Witness ==
    /\ workload = <<>>
    /\ mpc = "returned"
    /\ activeDeviceCount = 0


\* C19. Per-device serialization and registry shape: a device's work items run one at a
\* time on its one thread, in the order they were queued; a bucket of the registry holds
\* at most one entry, a thread has at most one entry (notifyTaskBegin never finds one),
\* and the thread of the k-th thread group has its entry in bucket k.
C19_RegistryShape ==
    /\ \A p \in DOMAIN statusByPriority_ : Len(statusByPriority_[p]) <= 1
    /\ \A w \in Devices : ThreadStatusCount(w) <= 1
    /\ \A p \in DOMAIN statusByPriority_ : \A i \in DOMAIN statusByPriority_[p] :
          p = statusPrio(statusByPriority_[p][i].threadId) + 1
    /\ "notifyTaskBegin" \notin assertFailed
    /\ \A w \in Devices :
          /\ taskBegins[w] - taskEnds[w] \in {0, 1}
          /\ taskBegins[w] = tasksTaken[w]
          /\ tasksTaken[w] <= tasksSubmitted[w]
          /\ (taskBegins[w] - taskEnds[w] = 1) = HasThreadStatus(w)
          /\ HasThreadStatus(w) = InTask(w)

\* C19 witness: the threads of two devices run a work item each, each with its entry in
\* the bucket of its own thread group
C19_Witness ==
    /\ Len(statusByPriority_) = 2
    /\ \A p \in DOMAIN statusByPriority_ : Len(statusByPriority_[p]) = 1
    /\ \A w \in Devices : wpc[w] = "run"

\* C21. No error after the finish: whenever an error request without a response is
\* stored, finishNowRequest_ is false, so the assertion of line 108 never fails and the
\* external callback's reportError is never called once notifyAllDone has been called.
C21_NoErrorAfterFinish ==
    /\ [](ErrorPending => ~finishNowRequest_)
    /\ []("waitUntilDone" \notin assertFailed)
    /\ [][cbErr' # cbErr => ~finishNowRequest_ /\ allDoneCalls = 0]_vars

\* C21 witness: the main thread finds an unanswered error request of one device after
\* the other device has finished all its work
C21_Witness ==
    /\ mpc = "wud_handle"
    /\ ErrorPending
    /\ Cardinality(DeviceKeys) = 2
    /\ activeDeviceCount = 1

\* =====================================================================
\* The run with the clock of waitUntilDone and the workers' status texts observed
\* =====================================================================
\* the texts a work item passes to updateStatus
StatusMsgs == {"", "a"}

\* lines 42-44: ts->statusMsg = msg for the entry getThreadStatus() finds
RegistrySetStatus(w, msg) ==
    LET hits == {p \in DOMAIN statusByPriority_ :
                    \E i \in DOMAIN statusByPriority_[p] : statusByPriority_[p][i].threadId = w}
        p == MinOf(hits)
        sbp == statusByPriority_[p]
        i == MinOf({j \in DOMAIN sbp : sbp[j].threadId = w})
    IN  [statusByPriority_ EXCEPT ![p][i].statusMsg = msg]

\* lines 37-47, AsyncCallback::updateStatus called by the work item: the thread's entry
\* gets the text under lockCurrentStatus_ (assert(false) without an entry), then
\* interruptionPoint() throws ThreadStopRequest when the thread was asked to stop
UpdateStatus(w) ==
    /\ wpc[w] = "run"
    /\ StatusLockHeld(<<"worker", w>>)
    /\ lockCurrentStatus_' = StatusUnlock
    /\ opsUsed < MaxOps
    /\ opsUsed' = opsUsed + 1
    /\ \E msg \in StatusMsgs :
          IF HasThreadStatus(w)
          THEN /\ statusByPriority_' = RegistrySetStatus(w, msg)
               /\ UNCHANGED assertFailed
          ELSE /\ assertFailed' = assertFailed \cup {"updateStatus"}
               /\ UNCHANGED statusByPriority_
    /\ wpc' = [wpc EXCEPT ![w] = IF stopRequested[w] THEN "unwind" ELSE "run"]
    /\ UNCHANGED <<workFrame, errorRequest_, errorResponse_, logInfoRequest_, statVars,
                   tasksTaken, tasksPending, hookRegistered, warg, woken, msgCalls,
                   posted, dirty, logPosted, errReturned, taskBegins, taskEnds>>

\* steady_clock reaches callbackTime (line 98) while the main thread is in the loop of
\* lines 100-124
CallbackTimeReached ==
    /\ mpc \in {"wud_wait", "wud_blocked", "wud_handle"}
    /\ callbackTime = "ahead"
    /\ callbackTime' = "reached"
    /\ UNCHANGED <<workload, chanVars, statusByPriority_, statVars, poolVars, mainVars,
                   workVars, cbVars, histVars, itemVars, sideVars, lockCurrentStatus_, drains>>

InitUi ==
    /\ workload \in Workloads
    /\ InitRun
    /\ InitNoItem
    /\ callbackTime = "ahead" /\ drains = 0
    /\ InitSideIdle

NextUi ==
    \/ Next
    \/ CallbackTimeReached
    \/ \E w \in Devices : UpdateStatus(w)

SpecUi == InitUi /\ [][NextUi]_vars

\* the main thread keeps running
FairSpecUi == SpecUi /\ WF_vars(MainStep)

\* the main thread is in the loop of lines 100-124 and callbackTime has passed
InLoopPastCallbackTime ==
    /\ mpc \in {"wud_wait", "wud_blocked", "wud_handle"}
    /\ callbackTime = "reached"

\* C11 as stated: once callbackTime is reached, the requests the workers go on posting
\* do not keep the main thread from the tick: no second pass of lines 106-123 is begun
\* after the deadline before cb.updateStatus is called.
C11_AsStated == drains <= 1

\* C11. What holds instead: the tick is made when a wait ends at callbackTime with no
\* request pending; a request found pending is handled first, also after callbackTime
\* (line 102 tests the predicate before the clock), so the tick is put off by one pass of
\* lines 106-123 per request the workers post in time. Every pass begun after
\* callbackTime handles a request or ends the loop, and when the workers post only
\* finitely many requests a reached callbackTime leads to the tick, to the return of
\* waitUntilDone or to a failure of the external callback.
C11_TickAfterPendingRequests ==
    /\ [](mpc = "tick" => callbackTime = "reached" /\ lockRequest_ = "free")
    /\ [](drains <= Len(cbLog) + Len(cbErr) + 1)
    /\ (InLoopPastCallbackTime ~> (mpc = "tick" \/ WaitUntilDoneReturned \/ failed))

\* C11 witness: the tick is made after two passes of lines 106-123 that were begun
\* after callbackTime
C11_Witness ==
    /\ mpc = "tick"
    /\ callbackTime = "reached"
    /\ drains >= 2


\* =====================================================================
\* ItemStatReporter: one work item's reporter from construction to destruction
\* =====================================================================
\* the arguments of a reportDelta call
ItemDeltas == {-1, 0, 1, 2}

\* lines 296-299, 337-342: ItemStatReporter(itemsExpected, bytesExpected, cb)
InitItem ==
    /\ itemsExpected_ \in 0..MaxExpected
    /\ bytesExpected_ \in 0..MaxExpected
    /\ itemsReported_ = 0 /\ bytesReported_ = 0
    /\ exeptionCount_ = 0
    /\ rpc = "live" /\ rcalls = 0 /\ rSum = <<0, 0>>
    /\ rProcessed = <<0, 0>> /\ rTotal = <<0, 0>>

\* nothing is passed to updateDataTotal
ExcessNone(reported, expected) == 0

\* lines 321-323, 326-328: what is above the expected amount is passed to updateDataTotal
Excess(reported, expected) == IF reported > expected THEN reported - expected ELSE 0

\* the reported amount left as it is
KeepReported(reported, expected) == reported

\* lines 324, 329: ... and the reported amount is set back to the expected one
ClampReported(reported, expected) == IF reported > expected THEN expected ELSE reported

\* a negative delta is left out of the reported amount
AddReportedNoDecrease(reported, delta) == IF delta > 0 THEN reported + delta ELSE reported

\* lines 317-318: itemsReported_ += itemsDelta; bytesReported_ += bytesDelta
AddReported(reported, delta) == reported + delta

runFrame == <<workload, chanVars, statusByPriority_, statVars, poolVars, mainVars, workVars,
              cbVars, histVars, uiVars, sideVars, lockCurrentStatus_>>

\* lines 314-331, reportDelta(itemsDelta, bytesDelta): what it does to the reporter and
\* what it passes to its callback
reportDeltaCall(itemsDelta, bytesDelta) ==
    LET items == AddReported(itemsReported_, itemsDelta)
        bytes == AddReported(bytesReported_, bytesDelta)
    IN  /\ rpc = "live"
        /\ rcalls < MaxCalls
        /\ rcalls' = rcalls + 1
        /\ rSum' = <<rSum[1] + itemsDelta, rSum[2] + bytesDelta>>
        /\ rProcessed' = <<rProcessed[1] + itemsDelta, rProcessed[2] + bytesDelta>>
        /\ rTotal' = <<rTotal[1] + Excess(items, itemsExpected_),
                       rTotal[2] + Excess(bytes, bytesExpected_)>>
        /\ itemsReported_' = ClampReported(items, itemsExpected_)
        /\ bytesReported_' = ClampReported(bytes, bytesExpected_)
        /\ UNCHANGED <<itemsExpected_, bytesExpected_, exeptionCount_, rpc>>

\* reportDelta called on an ItemStatReporter of its own
reportDelta(itemsDelta, bytesDelta) ==
    /\ reportDeltaCall(itemsDelta, bytesDelta)
    /\ UNCHANGED runFrame

\* the destructor takes the normal branch whatever the exit
DestructorTotalNormalOnly(scopeFail) ==
    <<itemsReported_ - itemsExpected_, bytesReported_ - bytesExpected_>>

\* lines 303-309: the arguments of the destructor's updateDataTotal
DestructorTotal(scopeFail) ==
    IF scopeFail
    THEN <<itemsReported_, bytesReported_>>
    ELSE <<itemsReported_ - itemsExpected_, bytesReported_ - bytesExpected_>>

\* lines 301-310, ~ItemStatReporter(): scopeFail is std::uncaught_exceptions() > exeptionCount_,
\* true when the scope is left by an exception
ItemStatReporterDestructor(scopeFail) ==
    /\ rpc = "live"
    /\ rpc' = IF scopeFail THEN "done_fail" ELSE "done_normal"
    /\ rTotal' = <<rTotal[1] + DestructorTotal(scopeFail)[1],
                   rTotal[2] + DestructorTotal(scopeFail)[2]>>
    /\ UNCHANGED <<runFrame, itemsReported_, bytesReported_, itemsExpected_, bytesExpected_,
                   exeptionCount_, rcalls, rSum, rProcessed>>

InitItemRun ==
    /\ workload = <<>>
    /\ InitRun
    /\ InitItem
    /\ InitClockUnobserved
    /\ InitSideIdle

NextItem ==
    \/ \E itemsDelta \in ItemDeltas : \E bytesDelta \in ItemDeltas :
          reportDelta(itemsDelta, bytesDelta)
    \/ \E scopeFail \in BOOLEAN : ItemStatReporterDestructor(scopeFail)

SpecItem == InitItemRun /\ [][NextItem]_vars

\* C6 as stated: after a normal exit the updateDataTotal deltas of reportDelta and of
\* the destructor cancel out.
C6_AsStated == rpc = "done_normal" => rTotal = <<0, 0>>

\* C6. What holds instead: after a normal exit the updateDataTotal deltas sum to
\* (i - ie, b - be), what was reported less what was expected, so that the item's
\* contribution to the total is (i, b); they cancel out only when i = ie and b = be.
\* The deltas passed to updateDataProcessed sum to (i, b).
C6_NormalExitTotal ==
    rpc = "done_normal" =>
        /\ rTotal = <<rSum[1] - itemsExpected_, rSum[2] - bytesExpected_>>
        /\ rProcessed = rSum

\* C6 witness: more bytes were reported than expected (the overshoot was passed to
\* updateDataTotal by reportDelta), then the scope was left normally
C6_Witness ==
    /\ rpc = "done_normal"
    /\ rSum[2] > bytesExpected_
    /\ bytesReported_ = bytesExpected_
    /\ rTotal[2] > 0

\* C7. Abnormal reconciliation: after an exit by exception the updateDataTotal deltas of
\* reportDelta and of the destructor sum to (i, b), also when i > ie or b > be.
C7_AbnormalExitTotal ==
    rpc = "done_fail" => rTotal = rSum /\ rProcessed = rSum

\* C7 witness: an exit by exception after more items were reported than expected
C7_Witness ==
    /\ rpc = "done_fail"
    /\ rSum[1] > itemsExpected_
    /\ rSum[2] < bytesExpected_

\* C23. The total tracks the real amount: while the reporter lives, the updateDataProcessed
\* deltas less the updateDataTotal deltas it has emitted are what it holds as reported;
\* after a normal exit the updateDataTotal deltas sum to the updateDataProcessed deltas
\* less (ie, be), so the item's share of the total, (ie, be) included, is its share of
\* processed, for items and for bytes, with deltas of either sign.
C23_TotalTracksProcessed ==
    /\ rpc = "live" =>
          /\ rProcessed[1] - rTotal[1] = itemsReported_
          /\ rProcessed[2] - rTotal[2] = bytesReported_
    /\ rpc = "done_normal" =>
          /\ rTotal[1] = rProcessed[1] - itemsExpected_
          /\ rTotal[2] = rProcessed[2] - bytesExpected_
          /\ <<itemsExpected_ + rTotal[1], bytesExpected_ + rTotal[2]>> = rProcessed

\* C23 witness: a normal exit after more items were reported than expected and a
\* negative delta then took the reported items below the expected ones again
C23_Witness ==
    /\ rpc = "done_normal"
    /\ itemsExpected_ > 0
    /\ rProcessed[1] >= itemsExpected_
    /\ itemsReported_ < itemsExpected_
    /\ rTotal[1] = rProcessed[1] - itemsExpected_


\* ---------------------------------------------------------------------
\* ItemStatReporter with deltas that are not negative
\* ---------------------------------------------------------------------
NonNegativeDeltas == {d \in ItemDeltas : d >= 0}

NextItemNonNegative ==
    \/ \E itemsDelta \in NonNegativeDeltas : \E bytesDelta \in NonNegativeDeltas :
          reportDelta(itemsDelta, bytesDelta)
    \/ \E scopeFail \in BOOLEAN : ItemStatReporterDestructor(scopeFail)

SpecItemNonNegative == InitItemRun /\ [][NextItemNonNegative]_vars

\* C18. Overshoot clamp: with deltas that are not negative, after every reportDelta the
\* sum passed to updateDataProcessed is at most the expected amount plus what was passed
\* to updateDataTotal, itemsReported_ and bytesReported_ do not exceed the expected
\* amounts, and what was reported above the expected amount was passed once to
\* updateDataProcessed and once to updateDataTotal.
C18_OvershootClamp ==
    rpc = "live" =>
        /\ rProcessed = rSum
        /\ rProcessed[1] <= itemsExpected_ + rTotal[1]
        /\ rProcessed[2] <= bytesExpected_ + rTotal[2]
        /\ itemsReported_ <= itemsExpected_ /\ bytesReported_ <= bytesExpected_
        /\ rTotal = <<Excess(rSum[1], itemsExpected_), Excess(rSum[2], bytesExpected_)>>
        /\ itemsReported_ = rSum[1] - rTotal[1] /\ bytesReported_ = rSum[2] - rTotal[2]

\* C18 witness: two calls went above the expected amount of bytes, each by its own excess
C18_Witness ==
    /\ rpc = "live"
    /\ rcalls >= 2
    /\ bytesReported_ = bytesExpected_
    /\ rTotal[2] >= 2
    /\ rProcessed[2] = bytesExpected_ + rTotal[2]
    /\ rSum[1] < itemsExpected_

\* =====================================================================
\* A work item with an ItemStatReporter inside a run: stop requests
\* =====================================================================
\* the thread whose work item holds the ItemStatReporter that is observed
ItemThread == MinOf(Devices)

\* std::uncaught_exceptions() on thread w: ThreadStopRequest is in flight while the
\* task lambda is being unwound
uncaught_exceptions(w) == IF wpc[w] = "unwind" THEN 1 ELSE 0

\* the scope is taken to be left normally whatever is in flight
ScopeFailNever == FALSE

\* line 303: scopeFail
ScopeFail == uncaught_exceptions(ItemThread) > exeptionCount_

\* lines 296-299, 342: the work item constructs its ItemStatReporter
ItemStatReporterConstruct ==
    /\ wpc[ItemThread] = "run"
    /\ rpc = "none"
    /\ rpc' = "live"
    /\ itemsExpected_' = MaxExpected - 1
    /\ bytesExpected_' = MaxExpected - 1
    /\ exeptionCount_' = uncaught_exceptions(ItemThread)
    /\ UNCHANGED <<runFrame, itemsReported_, bytesReported_, rcalls, rSum, rProcessed, rTotal>>

\* the work item reports once, lines 314-331
ItemReportDelta ==
    /\ wpc[ItemThread] = "run"
    /\ rcalls = 0
    /\ \E itemsDelta \in ItemDeltas : reportDelta(itemsDelta, itemsDelta)

\* the work item's scope is left, by return or by ThreadStopRequest: lines 301-310
ItemScopeExit ==
    /\ wpc[ItemThread] \in {"run", "unwind"}
    /\ ItemStatReporterDestructor(ScopeFail)

\* the work item's scope lies inside the task lambda's (lines 499-505): the lambda is
\* not left while the ItemStatReporter is alive
ItemScopeNested ==
    (rpc = "live" /\ wpc[ItemThread] \in {"run", "unwind"}) =>
        wpc'[ItemThread] \notin {"task_done", "exited"}

InitStop ==
    /\ workload \in Workloads
    /\ InitRun
    /\ InitNoItem
    /\ InitClockUnobserved
    /\ InitSideIdle

NextStop ==
    \/ Next /\ ItemScopeNested
    \/ ItemStatReporterConstruct
    \/ ItemReportDelta
    \/ ItemScopeExit

SpecStop == InitStop /\ [][NextStop]_vars

\* a thread woken in an interruptible wait gets to run
InterruptibleWaitWake(w) ==
    \/ LogInfoWake(w)
    \/ ReportErrorWake(w)
    \/ ReportErrorHaveResponse(w)

\* the main thread keeps running and so does a woken worker
FairSpecStop ==
    /\ SpecStop
    /\ WF_vars(MainStep)
    /\ \A w \in Devices : WF_vars(InterruptibleWaitWake(w))

\* a worker blocked in logInfo or in reportError that was asked to stop leaves the wait
BlockedLeaves(w) ==
    (Blocked(w) /\ stopRequested[w] /\ wpc'[w] # wpc[w]) =>
        /\ wpc'[w] = "unwind"
        /\ wpc[w] = "log_blocked" =>
              logInfoRequest_' = logInfoRequest_ /\ logPosted' = logPosted

\* the ItemStatReporter's scope left while ThreadStopRequest is in flight
AbnormalExit ==
    (rpc = "live" /\ wpc[ItemThread] = "unwind" /\ rpc' # rpc) =>
        /\ rpc' = "done_fail"
        /\ rTotal' = <<rTotal[1] + itemsReported_, rTotal[2] + bytesReported_>>

\* C12. Cancellation of a blocked worker: a worker waiting in logInfo or in either wait
\* of reportError that is asked to stop leaves the call by ThreadStopRequest; a logInfo
\* left this way has not stored its message; an ItemStatReporter around the call takes
\* the branch of line 305 and adds what it has reported to the total.
C12_BlockedWorkerCancelled ==
    /\ \A w \in Devices : (Blocked(w) /\ stopRequested[w]) ~> (wpc[w] = "unwind")
    /\ [][\A w \in Devices : BlockedLeaves(w)]_vars
    /\ [][AbnormalExit]_vars
    /\ [](rpc = "done_fail" => rTotal = rSum)

\* C12 witness: the thread is asked to stop while it waits in logInfo for the slot that
\* holds another thread's message, inside a scope whose ItemStatReporter has reported
C12_Witness ==
    /\ wpc[ItemThread] = "log_blocked"
    /\ stopRequested[ItemThread]
    /\ Has(logInfoRequest_)
    /\ rpc = "live"
    /\ itemsReported_ > 0

\* =====================================================================
\* tryReportingError, lines 437-457: one call, on its own
\* =====================================================================
\* the retry number is left as it is
SameRetryNumber(n) == n

\* line 439: ++retryNumber
NextRetryNumber(n) == n + 1

\* what(): the messages of the FileError thrown by cmd, not empty (line 448)
FileErrorMessages == {"X", "Y"}

retryFrame == <<workload, chanVars, statusByPriority_, statVars, poolVars, mainVars,
                workVars, cbVars, histVars, itemVars, uiVars, percentVars, lockCurrentStatus_,
                statusCallVars>>

\* lines 442-443: cmd() returns, std::wstring() is returned
TryCmdReturns ==
    /\ tpc = "cmd"
    /\ cmdCalls' = cmdCalls + 1
    /\ tresult' = ""
    /\ tpc' = "returned"
    /\ UNCHANGED <<retryFrame, retryNumber, reportedErrors, retryResponses>>

\* lines 442, 446-449: cmd() throws FileError e and cb.reportError is called with
\* {e.toString(), now, retryNumber}
TryCmdThrows(msg) ==
    /\ tpc = "cmd"
    /\ retryNumber <= MaxRetries
    /\ cmdCalls' = cmdCalls + 1
    /\ reportedErrors' = Append(reportedErrors, <<msg, retryNumber>>)
    /\ tpc' = "reportError"
    /\ UNCHANGED <<retryFrame, retryNumber, retryResponses, tresult>>

\* lines 451-452: case PhaseCallback::ignore: return e.toString()
ReportErrorReturnsIgnore ==
    /\ tpc = "reportError"
    /\ tresult' = reportedErrors[Len(reportedErrors)][1]
    /\ tpc' = "returned"
    /\ UNCHANGED <<retryFrame, retryNumber, cmdCalls, reportedErrors, retryResponses>>

\* lines 453-454, 439: case PhaseCallback::retry: break, the loop goes on
ReportErrorReturnsRetry ==
    /\ tpc = "reportError"
    /\ retryResponses' = retryResponses + 1
    /\ retryNumber' = NextRetryNumber(retryNumber)
    /\ tpc' = "cmd"
    /\ UNCHANGED <<retryFrame, cmdCalls, reportedErrors, tresult>>

\* line 449: cb.reportError throws X, which leaves tryReportingError
ReportErrorThrowsX ==
    /\ tpc = "reportError"
    /\ tpc' = "thrown"
    /\ UNCHANGED <<retryFrame, retryNumber, cmdCalls, reportedErrors, retryResponses, tresult>>

InitRetry ==
    /\ workload = <<>>
    /\ InitRun
    /\ InitNoItem
    /\ InitClockUnobserved
    /\ tpc = "cmd" /\ retryNumber = 0 /\ cmdCalls = 0
    /\ reportedErrors = <<>> /\ retryResponses = 0 /\ tresult = ""
    /\ InitNoPercent
    /\ InitStatusLockUnobserved
    /\ InitNoStatusCall

NextRetry ==
    \/ TryCmdReturns
    \/ \E msg \in FileErrorMessages : TryCmdThrows(msg)
    \/ ReportErrorReturnsIgnore
    \/ ReportErrorReturnsRetry
    \/ ReportErrorThrowsX

SpecRetry == InitRetry /\ [][NextRetry]_vars

\* C14. Retry wrapper: the k-th reportError call carries retryNumber k - 1; cmd has been
\* invoked once more than "retry" was answered when tryReportingError is left or waits
\* for the answer; "ignore" returns the message of the last failure and success returns
\* the empty string, both without a further invocation of cmd.
C14_RetryWrapper ==
    /\ \A k \in DOMAIN reportedErrors : reportedErrors[k][2] = k - 1
    /\ tpc = "cmd" => cmdCalls = retryResponses /\ Len(reportedErrors) = retryResponses
    /\ tpc \in {"reportError", "thrown"} =>
          cmdCalls = retryResponses + 1 /\ Len(reportedErrors) = retryResponses + 1
    /\ tpc = "returned" =>
          /\ cmdCalls = retryResponses + 1
          /\ \/ tresult = "" /\ Len(reportedErrors) = retryResponses
             \/ /\ Len(reportedErrors) = retryResponses + 1
                /\ tresult = reportedErrors[Len(reportedErrors)][1]
                /\ tresult # ""

\* C14 witness: "retry" was answered as often as the bound allows, then the failure
\* was ignored
C14_Witness ==
    /\ tpc = "returned"
    /\ retryResponses = MaxRetries
    /\ cmdCalls = MaxRetries + 1
    /\ tresult = "Y"

\* =====================================================================
\* PercentStatReporter, lines 354-431: one item, on its own
\* =====================================================================
\* line 369: the clock is counted in periods of UI_UPDATE_INTERVAL / 2 ("every ~50 ms")
TicksPerSecond == 20

\* lines 349, 350, 352, in seconds
STATUS_PERCENT_DELAY == 2
STATUS_PERCENT_MIN_DURATION == 3
STATUS_PERCENT_SPEED_WINDOW == 10

\* the time that passes between two calls of updateStatus
Advances == {0, 1, STATUS_PERCENT_DELAY * TicksPerSecond,
             2 * STATUS_PERCENT_DELAY * TicksPerSecond}

MaxOf(S) == CHOOSE x \in S : \A y \in S : y <= x

\* SpeedTest::addSample: the sample is put at the end, samples that left the window are
\* dropped but for the last of them; a sample with the time of the last one is not stored
AddSample(samples, time, bytes) ==
    LET all == IF samples # <<>> /\ samples[Len(samples)][1] = time
               THEN samples
               ELSE Append(samples, <<time, bytes>>)
        old == {i \in DOMAIN all : all[i][1] <= time - STATUS_PERCENT_SPEED_WINDOW * TicksPerSecond}
    IN  IF old = {} THEN all ELSE SubSeq(all, MaxOf(old), Len(all))

\* SpeedTest::getRemainingSec(0, bytesRemaining) against a number of seconds: the
\* estimate is bytesRemaining * timeDelta / bytesDelta over the first and the last
\* sample, and there is none while bytesDelta is 0
RemainingSec(samples, bytesRemaining, secs) ==
    IF samples = <<>> THEN "unknown"
    ELSE LET timeDelta == samples[Len(samples)][1] - samples[1][1]
             bytesDelta == samples[Len(samples)][2] - samples[1][2]
             num == bytesRemaining * timeDelta
             den == bytesDelta * TicksPerSecond
         IN  IF bytesDelta = 0 THEN "unknown"
             ELSE IF (den > 0 /\ num > secs * den) \/ (den < 0 /\ num < secs * den)
                  THEN "above"
                  ELSE "atOrBelow"

\* any estimate will do
RemainingKnown(remSecs) == remSecs # "unknown"

\* lines 388-389: remSecs && *remSecs > STATUS_PERCENT_MIN_DURATION
RemainingAboveMinDuration(remSecs) == remSecs = "above"

\* lines 383-384: elapsed >= STATUS_PERCENT_DELAY
PercentDelayPassed(elapsed) == elapsed >= STATUS_PERCENT_DELAY * TicksPerSecond

percentFrame == <<workload, chanVars, statusByPriority_, statVars, poolVars, mainVars,
                  workVars, cbVars, histVars, uiVars, retryVars, lockCurrentStatus_,
                  statusCallVars>>

\* lines 364-405, updateStatus(itemsDelta, bytesDelta), called when the clock has gone on
\* by advance
PercentUpdateStatus(itemsDelta, bytesDelta, advance) ==
    LET time == now + advance
        gate == time >= lastUpdate_ + 1
        bytesCopied == ClampReported(bytesReported_ + bytesDelta, bytesExpected_)
        bytesTotal == bytesExpected_
        timing == gate /\ ~showPercent_ /\ bytesCopied > 0
        first == timing /\ startTime_ = 0
        check == timing /\ startTime_ # 0 /\ PercentDelayPassed(time - startTime_)
        start == IF first THEN time ELSE startTime_
        samples1 == IF first THEN AddSample(speedTest_, 0, bytesCopied)
                    ELSE IF check THEN AddSample(speedTest_, time - startTime_, bytesCopied)
                    ELSE speedTest_
        remSecs == RemainingSec(samples1, bytesTotal - bytesCopied, STATUS_PERCENT_MIN_DURATION)
        latch == check /\ RemainingAboveMinDuration(remSecs)
        show == gate /\ (showPercent_ \/ latch)
        samples2 == IF latch THEN <<>> ELSE samples1
    IN  /\ reportDeltaCall(itemsDelta, bytesDelta)
        /\ now' = time
        /\ lastUpdate_' = (IF gate THEN time ELSE lastUpdate_)
        /\ startTime_' = start
        /\ showPercent_' = (showPercent_ \/ latch)
        /\ speedTest_' = (IF show THEN AddSample(samples2, time - start, bytesCopied)
                          ELSE samples2)
        /\ percentShown' = (IF show
                            THEN <<IF bytesCopied > bytesTotal THEN bytesTotal ELSE bytesCopied,
                                   bytesTotal>>
                            ELSE percentShown)
        /\ lastCheck' = (IF check THEN remSecs ELSE "none")
        /\ belowMinDuration' = (belowMinDuration \/ (check /\ remSecs = "atOrBelow"))
        /\ UNCHANGED percentFrame

\* lines 357-362: PercentStatReporter(statusMsg, bytesExpected, cb), itemsExpected is 1
InitPercent ==
    /\ workload = <<>>
    /\ InitRun
    /\ InitClockUnobserved
    /\ InitNoRetry
    /\ InitStatusLockUnobserved
    /\ InitNoStatusCall
    /\ itemsExpected_ = 1
    /\ bytesExpected_ \in 0..MaxBytesExpected
    /\ itemsReported_ = 0 /\ bytesReported_ = 0
    /\ exeptionCount_ = 0
    /\ rpc = "live" /\ rcalls = 0 /\ rSum = <<0, 0>>
    /\ rProcessed = <<0, 0>> /\ rTotal = <<0, 0>>
    /\ now = 1
    /\ InitPercentFields

NextPercent ==
    \E itemsDelta \in {0, 1} : \E bytesDelta \in ItemDeltas : \E advance \in Advances :
        PercentUpdateStatus(itemsDelta, bytesDelta, advance)

SpecPercent == InitPercent /\ [][NextPercent]_vars

\* C16 as stated: once a test of line 389 has found the estimated remaining time at or
\* below STATUS_PERCENT_MIN_DURATION, showPercent_ is never set for that item.
C16_AsStated == belowMinDuration => ~showPercent_

\* C16. What holds instead: showPercent_ is set exactly by a call whose test of line 389
\* finds the estimate above STATUS_PERCENT_MIN_DURATION, at least STATUS_PERCENT_DELAY
\* after startTime_, and it stays set; a test that finds the estimate at or below the
\* minimum leaves showPercent_ false for that call only, and the test is made again by
\* the next call that passes the gate of line 369.
C16_PercentLatch ==
    /\ [][showPercent_' # showPercent_ =>
            /\ showPercent_'
            /\ lastCheck' = "above"
            /\ now' - startTime_' >= STATUS_PERCENT_DELAY * TicksPerSecond]_vars
    /\ [][lastCheck' = "above" => showPercent_']_vars
    /\ [][lastCheck' \in {"atOrBelow", "unknown"} =>
            ~showPercent_' /\ speedTest_' # <<>>]_vars
    /\ [](showPercent_ => startTime_ # 0 /\ bytesExpected_ > 0)

\* C16 witness: showPercent_ was set by a call after a test that had found the estimate
\* at or below the minimum
C16_Witness ==
    /\ belowMinDuration
    /\ showPercent_
    /\ lastCheck = "above"

\* =====================================================================
\* The run with the mutex of the registry observed
\* =====================================================================
\* the registry and the position of every thread but the one that locks
lockFrame == <<workload, chanVars, statusByPriority_, statVars, poolVars, mainVars, workVars,
               cbVars, histVars, itemVars, uiVars, sideVars>>

\* line 247, getCurrentStatus: std::lock_guard dummy(lockCurrentStatus_) on the main thread
MainStatusLock ==
    /\ mpc = "tick"
    /\ lockCurrentStatus_ = <<"free">>
    /\ lockCurrentStatus_' = <<"main">>
    /\ UNCHANGED lockFrame

\* lines 41, 136, 162: std::lock_guard dummy(lockCurrentStatus_) on a worker thread, in
\* updateStatus, notifyTaskBegin or notifyTaskEnd
WorkerStatusLock(w) ==
    /\ \/ wpc[w] \in {"run", "unwind"}
       \/ wpc[w] = "idle" /\ ~stopRequested[w] /\ tasksTaken[w] < tasksSubmitted[w]
    /\ lockCurrentStatus_ = <<"free">>
    /\ lockCurrentStatus_' = <<"worker", w>>
    /\ UNCHANGED lockFrame

\* a thread that has the mutex is inside its critical section: its next step ends it
HolderReleases(t) == lockCurrentStatus_ = t => lockCurrentStatus_' = <<"free">>

InitLocks ==
    /\ workload \in Workloads
    /\ InitRun
    /\ InitNoItem
    /\ InitClockUnobserved
    /\ InitNoRetry
    /\ InitNoPercent
    /\ InitNoStatusCall
    /\ lockCurrentStatus_ = <<"free">>

NextLocks ==
    \/ MainStep /\ HolderReleases(<<"main">>)
    \/ MainStatusLock
    \/ \E w \in Devices :
          \/ WorkerStep(w) /\ HolderReleases(<<"worker", w>>)
          \/ UpdateStatus(w) /\ HolderReleases(<<"worker", w>>)
          \/ WorkerStatusLock(w)

SpecLocks == InitLocks /\ [][NextLocks]_vars

\* the positions of the main thread inside reportStats
InReportStats ==
    mpc \in {RsPc(kind, step) : kind \in {"processed", "total"},
                                step \in {"load", "loadItems", "loadBytes", "addItems",
                                          "addBytes", "forward"}}

LogInfoCall(w) ==
    /\ wpc[w] = "run"
    /\ msgCalls[w] < MaxChannelCalls
    /\ msgCalls' = [msgCalls EXCEPT ![w] = @ + 1]
    /\ UNCHANGED opsUsed
    /\ LogInfoCritical(w, <<w, msgCalls[w] + 1>>)

\* the work item calls acb.reportError(errorInfo)
ReportErrorCall(w) ==
    /\ wpc[w] = "run"
    /\ msgCalls[w] < MaxChannelCalls
    /\ msgCalls' = [msgCalls EXCEPT ![w] = @ + 1]
    /\ UNCHANGED opsUsed
    /\ ReportErrorCritical(w, <<w, msgCalls[w] + 1>>)

\* the main thread with an external callback that returns from every call; the work
\* items post no statistics, so reportStats finds the four counters at zero (line 226,
\* line 232) and forwards nothing
MainStepReturns ==
    \/ MassParallelStart
    \/ ThreadGroupRun
    \/ ThreadGroupNotifyWhenDone
    \/ MainNotifyAllDone
    \/ WaitUntilDoneLock
    \/ WaitUntilDoneWait
    \/ WaitUntilDoneTimeout
    \/ WaitUntilDoneHandle
    \/ WaitUntilDoneTick
    \/ \E kind \in {"processed", "total"} :
          \/ ReportStatsLoadFirst(kind)
          \/ ReportStatsLoadSecond(kind)
    \/ ThreadGroupRequestStop
    \/ ThreadGroupJoin

\* a worker past a wait, or about to notify: what it does once it runs
ChannelProgress(w) ==
    \/ LogInfoWake(w)
    \/ ReportErrorWake(w)
    \/ ReportErrorHaveResponse(w)
    \/ ReportErrorNotify(w)

WorkerChannelStep(w) ==
    \/ ThreadGroupThreadStopped(w)
    \/ NotifyTaskBegin(w)
    \/ LogInfoCall(w)
    \/ ReportErrorCall(w)
    \/ ChannelProgress(w)
    \/ SpuriousWakeup(w)
    \/ TaskReturns(w)
    \/ ThreadGroupTaskDone(w)
    \/ WorkerNotifyAllDone(w)

NextChannel == MainStepReturns \/ \E w \in Devices : WorkerChannelStep(w)

SpecChannel == Init /\ [][NextChannel]_vars

\* the main thread keeps running; a worker that is awake and finds lockRequest_ free
\* again and again gets it: the main thread releases the mutex for every wait_until
FairSpecChannel ==
    /\ SpecChannel
    /\ WF_vars(MainStepReturns)
    /\ \A w \in Devices : SF_vars(ChannelProgress(w))

\* the worker is inside logInfo or reportError
InChannelCall(w) == wpc[w] \in {"log_blocked", "err_blocked1", "err_blocked2", "err_notify"}

\* the predicate of the wait the worker is in holds
WaitPredTrue(w) ==
    \/ wpc[w] = "log_blocked" /\ LogInfoPred
    \/ wpc[w] = "err_blocked1" /\ ReportErrorPred
    \/ wpc[w] = "err_blocked2" /\ Has(errorResponse_)

\* C22. No lost wake-up, no deadlock: with an external callback that always returns and
\* no stop request, every call of logInfo and of reportError returns; a worker whose
\* wait predicate holds has been notified or is about to be, by the notify_all of
\* line 88 of a thread that has just taken its response.
C22_NoLostWakeup ==
    /\ \A w \in Devices : InChannelCall(w) ~> (wpc[w] = "run")
    /\ [](\A w \in Devices :
             WaitPredTrue(w) => woken[w] \/ \E v \in Devices : wpc[v] = "err_notify")
    /\ [](\A w \in Devices : ~stopRequested[w] \/ ~InChannelCall(w))

\* C22 witness: a worker waiting in reportError for the slot, woken by the notify_all
\* that follows the delivery of a log message, while the other worker's request is
\* answered but not yet taken
C22_Witness ==
    \E w \in Devices :
       /\ wpc[w] = "err_blocked1"
       /\ woken[w]
       /\ Has(errorResponse_)
       /\ Len(cbLog) >= 1
       /\ \E v \in Devices : wpc[v] = "err_blocked2"


\* =====================================================================
\* getCurrentStatus, lines 240-264: one call, on its own
\* =====================================================================
\* the registries getCurrentStatus is applied to: the entry at place i of bucket p belongs
\* to a thread of its own
Buckets(p) ==
    UNION {{[i \in 1..n |-> [threadId |-> p * Cardinality(BucketSizes) + i, statusMsg |-> m[i]]] :
               m \in [1..n -> {""} \cup StatusTexts]} : n \in BucketSizes}

Registries ==
    UNION {{reg \in [1..n -> UNION {Buckets(p) : p \in 1..n}] :
               \A p \in 1..n : reg[p] \in Buckets(p)} : n \in 0..MaxBuckets}

statusCallFrame == <<workload, chanVars, statVars, poolVars, mainVars, workVars, cbVars,
                     histVars, itemVars, uiVars, retryVars, percentVars, lockCurrentStatus_>>

\* lines 240-264: the call returns; the registry is only read
GetCurrentStatusReturns ==
    /\ spc = "call"
    /\ currentStatus' = getCurrentStatus
    /\ spc' = "returned"
    /\ UNCHANGED <<statusCallFrame, statusByPriority_>>

InitStatusCall ==
    /\ workload = <<>>
    /\ InitNoRequest
    /\ InitNoThread
    /\ statusByPriority_ \in Registries
    /\ InitNoItem
    /\ InitClockUnobserved
    /\ InitNoRetry
    /\ InitNoPercent
    /\ InitStatusLockUnobserved
    /\ spc = "call" /\ currentStatus = <<>>

\* the registry is one that notifyTaskBegin and updateStatus calls can have built
SpecStatusCall == InitStatusCall /\ [][GetCurrentStatusReturns]_vars

\* the status messages of all entries, bucket after bucket
RECURSIVE AllStatusMsgs(_)
AllStatusMsgs(reg) ==
    IF reg = <<>> THEN <<>>
    ELSE [i \in DOMAIN Head(reg) |-> Head(reg)[i].statusMsg] \o AllStatusMsgs(Tail(reg))

RECURSIVE FirstNonEmpty(_)
FirstNonEmpty(msgs) ==
    IF msgs = <<>> THEN ""
    ELSE IF Head(msgs) # "" THEN Head(msgs) ELSE FirstNonEmpty(Tail(msgs))

NonEmptyBuckets(reg) == Len(SelectSeq(reg, LAMBDA sbp : sbp # <<>>))

\* C20. Representative status: getCurrentStatus returns the first status message that is
\* not empty, going through the buckets by priority and through each bucket in order
\* (the empty text if there is none), with the thread-count prefix exactly when at least
\* two buckets are not empty, and leaves the registry as it is.
C20_RepresentativeStatus ==
    /\ [](spc = "returned" =>
            /\ currentStatus.text = FirstNonEmpty(AllStatusMsgs(statusByPriority_))
            /\ currentStatus.threads =
                  IF NonEmptyBuckets(statusByPriority_) >= 2
                  THEN NonEmptyBuckets(statusByPriority_) ELSE 0)
    /\ [][statusByPriority_' = statusByPriority_]_vars

\* C20 witness: one bucket with two entries, the first without a message: the second
\* entry's message is returned without the prefix
C20_Witness ==
    /\ spc = "returned"
    /\ NonEmptyBuckets(statusByPriority_) = 1
    /\ \E p \in DOMAIN statusByPriority_ :
          /\ Len(statusByPriority_[p]) = 2
          /\ statusByPriority_[p][1].statusMsg = ""
          /\ statusByPriority_[p][2].statusMsg # ""
          /\ currentStatus.text = statusByPriority_[p][2].statusMsg
    /\ currentStatus.threads = 0

====
